---------------------------- MODULE Spec2Model ----------------------------
(***************************************************************************)
(* Friends-bot: the learning-progress state machine (progress_tracker.py), *)
(* the JSON-file store and its conversation ledgers (data_manager.py), the *)
(* user directory (user_manager.py, bot_config.py) and the message handler *)
(* that ties them together (main.py).                                      *)
(*                                                                         *)
(* The four JSON files are modelled as functions whose DOMAIN is the set   *)
(* of keys present in the file.  Time is a natural number of instants,     *)
(* TicksPerDay of them to a calendar day; an ISO timestamp is the instant  *)
(* it was taken at.  Message texts are numbered (text k is the natural k). *)
(* The fields created_at / updated_at / learning_goals / user_id of a      *)
(* progress record are written but never read by any operation and are     *)
(* left out of the record.                                                 *)
(***************************************************************************)
EXTENDS Integers, Sequences, FiniteSets, TLC

----------------------------------------------------------------------------
(* Bounds of the model (not program constants).                            *)

\* instants per calendar day
TicksPerDay == 2
\* last instant the clock reaches in the learning specification
MaxNow == 1
\* quiz events explored per record in the learning specification
MaxQuizzes == 2
\* quiz events explored per record in the quiz specification
MaxQuizRun == 6
\* texts stored per user ledger in the ledger specification
MaxUserTexts == 52
\* texts stored per group ledger in the ledger specification
MaxGroupTexts == 102
\* calendar days the clock covers in the activity specification
ActivityDays == 9
\* SpecContext: the turns stored in the user ledgers
MaxContextTexts == 8
\* SpecBot: the turns stored in the user ledgers
MaxBotTexts == 2
\* SpecReset: the texts stored into a ledger, the score completions stop at
MaxResetTexts == 2
MaxResetScore == 40
\* SpecModules: the score completions stop at
MaxModulesScore == 40
\* SpecHandler: the turns stored in the user ledger
MaxHandlerTexts == 2
\* SpecCleanup: the texts stored into the user ledgers, the last instant of the
\* clock, the largest days_to_keep
MaxCleanupTexts == 3
MaxCleanupNow == 3
MaxDaysToKeep == 1
\* SpecAchieve: calendar days, and quizzes taken by the user
AchieveDays == 7
MaxAchieveQuizzes == 5
\* SpecInterleaved: messages of the user
MaxInterleavedTexts == 2
\* SpecSkew: calendar days, and the days a record may count
SkewDays == 3
MaxSkewActive == 5
\* SpecIsolation: turns stored per user
MaxIsolationTexts == 1

----------------------------------------------------------------------------
(* Program constants.                                                      *)

\* progress_tracker.py:39  'last_activity': None
None == -1
\* progress_tracker.py:73  points for a completed module
CompletionAward == 10
\* progress_tracker.py:81  points per correct quiz answer
QuizPointFactor == 5
\* progress_tracker.py:92  score cap
MaxScore == 100
\* progress_tracker.py:88  recent_topics window
MaxRecentTopics == 10
\* data_manager.py:110  per-user ledger cap
UserLedgerCap == 50
\* data_manager.py:141  per-group ledger cap
GroupLedgerCap == 100
\* main.py:307  user history entries merged into a group context
UserContextTail == 5

----------------------------------------------------------------------------
(* Sequences as Python lists.                                              *)

\* x in lst
In(x, lst) == \E i \in 1..Len(lst) : lst[i] = x

\* lst[-n:]
LastN(lst, n) == IF Len(lst) <= n THEN lst ELSE SubSeq(lst, Len(lst) - n + 1, Len(lst))

\* index of the first occurrence of x in lst (x is in lst)
FirstIndex(x, lst) == CHOOSE i \in 1..Len(lst) : lst[i] = x /\ \A j \in 1..(i-1) : lst[j] # x

\* lst.remove(x): drops the first occurrence
ListRemove(lst, x) ==
    LET i == FirstIndex(x, lst)
    IN  SubSeq(lst, 1, i - 1) \o SubSeq(lst, i + 1, Len(lst))

Min(a, b) == IF a <= b THEN a ELSE b

NoDup(lst) == \A i, j \in 1..Len(lst) : i # j => lst[i] # lst[j]

----------------------------------------------------------------------------
(* Module ids and the substring tests of _update_skill_levels.             *)

\* the characters of a module id
TopicChars(t) ==
    CASE t = "crypto_basics" -> <<"c","r","y","p","t","o","_","b","a","s","i","c","s">>
    [] t = "blockchain" -> <<"b","l","o","c","k","c","h","a","i","n">>
    [] t = "stocks_basics" -> <<"s","t","o","c","k","s","_","b","a","s","i","c","s">>
    [] t = "technical_analysis" -> <<"t","e","c","h","n","i","c","a","l","_","a","n","a","l","y","s","i","s">>
    [] t = "risk_management" -> <<"r","i","s","k","_","m","a","n","a","g","e","m","e","n","t">>
    [] t = "Crypto_Wallets" -> <<"C","r","y","p","t","o","_","W","a","l","l","e","t","s">>
    [] t = "trading_strategies" -> <<"t","r","a","d","i","n","g","_","s","t","r","a","t","e","g","i","e","s">>
    [] t = "fundamental_analysis" -> <<"f","u","n","d","a","m","e","n","t","a","l","_","a","n","a","l","y","s","i","s">>
    [] t = "cryptocurrency_basics" -> <<"c","r","y","p","t","o","c","u","r","r","e","n","c","y","_","b","a","s","i","c","s">>
    [] t = "blockchain_technology" -> <<"b","l","o","c","k","c","h","a","i","n","_","t","e","c","h","n","o","l","o","g","y">>
    [] t = "portfolio_management" -> <<"p","o","r","t","f","o","l","i","o","_","m","a","n","a","g","e","m","e","n","t">>
    [] t = "stock_market_fundamentals" -> <<"s","t","o","c","k","_","m","a","r","k","e","t","_","f","u","n","d","a","m","e","n","t","a","l","s">>
    [] OTHER -> <<>>

\* str.lower() on one character
LowerChar(c) ==
    CASE c = "A" -> "a"
    [] c = "B" -> "b"
    [] c = "C" -> "c"
    [] c = "D" -> "d"
    [] c = "E" -> "e"
    [] c = "F" -> "f"
    [] c = "G" -> "g"
    [] c = "H" -> "h"
    [] c = "I" -> "i"
    [] c = "J" -> "j"
    [] c = "K" -> "k"
    [] c = "L" -> "l"
    [] c = "M" -> "m"
    [] c = "N" -> "n"
    [] c = "O" -> "o"
    [] c = "P" -> "p"
    [] c = "Q" -> "q"
    [] c = "R" -> "r"
    [] c = "S" -> "s"
    [] c = "T" -> "t"
    [] c = "U" -> "u"
    [] c = "V" -> "v"
    [] c = "W" -> "w"
    [] c = "X" -> "x"
    [] c = "Y" -> "y"
    [] c = "Z" -> "z"
    [] OTHER -> c

\* m.lower()
Lower(cs) == [i \in 1..Len(cs) |-> LowerChar(cs[i])]

\* term in s  (substring)
Contains(term, s) ==
    \E i \in 1..(Len(s) - Len(term) + 1) : SubSeq(s, i, i + Len(term) - 1) = term

TermCrypto == <<"c","r","y","p","t","o">>
TermBlockchain == <<"b","l","o","c","k","c","h","a","i","n">>
TermStock == <<"s","t","o","c","k">>
TermTrading == <<"t","r","a","d","i","n","g">>
TermAnalysis == <<"a","n","a","l","y","s","i","s">>
TermRisk == <<"r","i","s","k">>

\* the module ids the model draws topics from: the commands of main.py (lines
\* 145, 159, 232, 243, 255), BotConfig.LEARNING_TOPICS and one id with capitals
AllTopics ==
    { "crypto_basics", "stocks_basics", "blockchain", "technical_analysis",
      "risk_management", "Crypto_Wallets", "trading_strategies",
      "fundamental_analysis", "cryptocurrency_basics", "blockchain_technology",
      "portfolio_management", "stock_market_fundamentals" }

\* the crypto test counting the 'analysis' modules too
IsCryptoModuleOrAnalysis(m) ==
    \/ Contains(TermCrypto, Lower(TopicChars(m)))
    \/ Contains(TermBlockchain, Lower(TopicChars(m)))
    \/ Contains(TermAnalysis, Lower(TopicChars(m)))

\* 'crypto' in m.lower() or 'blockchain' in m.lower()
IsCryptoModule(m) ==
    Contains(TermCrypto, Lower(TopicChars(m))) \/ Contains(TermBlockchain, Lower(TopicChars(m)))

\* 'stock' in m.lower() or 'trading' in m.lower()
IsStocksModule(m) ==
    Contains(TermStock, Lower(TopicChars(m))) \/ Contains(TermTrading, Lower(TopicChars(m)))

\* any(term in m.lower() for term in ['trading', 'analysis', 'risk'])
IsTradingModule(m) ==
    \E term \in {TermTrading, TermAnalysis, TermRisk} : Contains(term, Lower(TopicChars(m)))

\* the three tests, evaluated once per module id
CryptoTagged == {m \in AllTopics : IsCryptoModule(m)}
StocksTagged == {m \in AllTopics : IsStocksModule(m)}
TradingTagged == {m \in AllTopics : IsTradingModule(m)}

\* crypto_modules = [m for m in completed_modules if ...]
CryptoModules(completed) == SelectSeq(completed, LAMBDA m : m \in CryptoTagged)

\* stocks_modules = [m for m in completed_modules if ...]
StocksModules(completed) == SelectSeq(completed, LAMBDA m : m \in StocksTagged)

\* trading_modules = [m for m in completed_modules if ...]
TradingModules(completed) == SelectSeq(completed, LAMBDA m : m \in TradingTagged)

----------------------------------------------------------------------------
(* ProgressTracker: the pure part of each operation.                       *)

\* _initialize_user_progress
InitialProgress ==
    [ overall_score     |-> 0,
      completed_modules |-> <<>>,
      current_modules   |-> <<>>,
      quizzes_completed |-> 0,
      correct_answers   |-> 0,
      total_questions   |-> 0,
      learning_streak   |-> 0,
      last_activity     |-> None,
      days_active       |-> 0,
      achievements      |-> <<>>,
      recent_topics     |-> <<>>,
      skill_levels      |-> [crypto |-> "beginner", stocks |-> "beginner", trading |-> "beginner"] ]

\* achievements.append(name) unless the condition fails or name is already there
Award(achievements, cond, name) ==
    IF cond /\ ~In(name, achievements) THEN Append(achievements, name) ELSE achievements

\* _check_achievements with the list rebuilt from the thresholds alone
CheckAchievementsRebuilt(p) ==
    LET a1 == Award(<<>>, Len(p.completed_modules) >= 1, "First Steps")
        a2 == Award(a1, Len(p.completed_modules) >= 3, "Knowledge Seeker")
        a3 == Award(a2, p.quizzes_completed >= 5, "Quiz Master")
        a4 == Award(a3, p.learning_streak >= 7, "Consistent Learner")
        a5 == Award(a4, p.overall_score >= 80, "High Achiever")
        a6 == Award(a5, p.total_questions > 0
                        /\ p.correct_answers = p.total_questions
                        /\ p.total_questions >= 5, "Perfect Score")
    IN  [p EXCEPT !.achievements = a6]

\* _check_achievements with 'Perfect Score' given before the fifth question
CheckAchievementsEarlyPerfect(p) ==
    LET a1 == Award(p.achievements, Len(p.completed_modules) >= 1, "First Steps")
        a2 == Award(a1, Len(p.completed_modules) >= 3, "Knowledge Seeker")
        a3 == Award(a2, p.quizzes_completed >= 5, "Quiz Master")
        a4 == Award(a3, p.learning_streak >= 7, "Consistent Learner")
        a5 == Award(a4, p.overall_score >= 80, "High Achiever")
        a6 == Award(a5, p.total_questions > 0
                        /\ p.correct_answers = p.total_questions, "Perfect Score")
    IN  [p EXCEPT !.achievements = a6]

\* _check_achievements
CheckAchievements(p) ==
    LET a1 == Award(p.achievements, Len(p.completed_modules) >= 1, "First Steps")
        a2 == Award(a1, Len(p.completed_modules) >= 3, "Knowledge Seeker")
        a3 == Award(a2, p.quizzes_completed >= 5, "Quiz Master")
        a4 == Award(a3, p.learning_streak >= 7, "Consistent Learner")
        a5 == Award(a4, p.overall_score >= 80, "High Achiever")
        a6 == Award(a5, p.total_questions > 0
                        /\ p.correct_answers = p.total_questions
                        /\ p.total_questions >= 5, "Perfect Score")
    IN  [p EXCEPT !.achievements = a6]

\* one domain of _update_skill_levels with the two tests in the other order:
\* the advanced test, then the intermediate test
SkillLevelIntermediateLast(old, count, score, midCount, midScore, topCount, topScore) ==
    LET l1 == IF count >= topCount \/ score >= topScore THEN "advanced" ELSE old
    IN  IF count >= midCount \/ score >= midScore THEN "intermediate" ELSE l1

\* one domain of _update_skill_levels: the intermediate test, then the advanced test
SkillLevel(old, count, score, midCount, midScore, topCount, topScore) ==
    LET l1 == IF count >= midCount \/ score >= midScore THEN "intermediate" ELSE old
    IN  IF count >= topCount \/ score >= topScore THEN "advanced" ELSE l1

\* _update_skill_levels
UpdateSkillLevels(p) ==
    LET s == p.overall_score
        c == p.completed_modules
    IN  [p EXCEPT !.skill_levels =
            [ crypto  |-> SkillLevel(p.skill_levels.crypto, Len(CryptoModules(c)), s, 3, 60, 5, 80),
              stocks  |-> SkillLevel(p.skill_levels.stocks, Len(StocksModules(c)), s, 3, 60, 5, 80),
              trading |-> SkillLevel(p.skill_levels.trading, Len(TradingModules(c)), s, 2, 50, 4, 75) ]]

\* the branch on the action with the quiz score added whatever its sign
ApplyActionUnguarded(p, topic, action, score) ==
    CASE action = "started" ->
            IF ~In(topic, p.current_modules)
            THEN [p EXCEPT !.current_modules = Append(@, topic)]
            ELSE p
    [] action = "completed" ->
            LET c1 == IF ~In(topic, p.completed_modules)
                      THEN Append(p.completed_modules, topic) ELSE p.completed_modules
                c2 == IF In(topic, p.current_modules)
                      THEN ListRemove(p.current_modules, topic) ELSE p.current_modules
            IN  [p EXCEPT !.completed_modules = c1,
                          !.current_modules = c2,
                          !.overall_score = @ + CompletionAward]
    [] action = "quiz_completed" ->
            [p EXCEPT !.quizzes_completed = @ + 1, !.total_questions = @ + 1,
                      !.correct_answers = @ + score,
                      !.overall_score = @ + score * QuizPointFactor]
    [] OTHER -> p

\* the branch on the action with a completed topic left in current_modules
ApplyActionKeepCurrent(p, topic, action, score) ==
    CASE action = "started" ->
            IF ~In(topic, p.current_modules)
            THEN [p EXCEPT !.current_modules = Append(@, topic)]
            ELSE p
    [] action = "completed" ->
            LET c1 == IF ~In(topic, p.completed_modules)
                      THEN Append(p.completed_modules, topic) ELSE p.completed_modules
            IN  [p EXCEPT !.completed_modules = c1,
                          !.overall_score = @ + CompletionAward]
    [] action = "quiz_completed" ->
            LET q == [p EXCEPT !.quizzes_completed = @ + 1, !.total_questions = @ + 1]
            IN  IF score > 0
                THEN [q EXCEPT !.correct_answers = @ + score,
                               !.overall_score = @ + score * QuizPointFactor]
                ELSE q
    [] OTHER -> p

\* the branch on the action with the award given only for a module that was
\* not yet completed
ApplyActionAwardOnce(p, topic, action, score) ==
    CASE action = "started" ->
            IF ~In(topic, p.current_modules)
            THEN [p EXCEPT !.current_modules = Append(@, topic)]
            ELSE p
    [] action = "completed" ->
            LET c1 == IF ~In(topic, p.completed_modules)
                      THEN Append(p.completed_modules, topic) ELSE p.completed_modules
                c2 == IF In(topic, p.current_modules)
                      THEN ListRemove(p.current_modules, topic) ELSE p.current_modules
            IN  [p EXCEPT !.completed_modules = c1,
                          !.current_modules = c2,
                          !.overall_score = IF In(topic, p.completed_modules)
                                            THEN @ ELSE @ + CompletionAward]
    [] action = "quiz_completed" ->
            LET q == [p EXCEPT !.quizzes_completed = @ + 1, !.total_questions = @ + 1]
            IN  IF score > 0
                THEN [q EXCEPT !.correct_answers = @ + score,
                               !.overall_score = @ + score * QuizPointFactor]
                ELSE q
    [] OTHER -> p

\* update_progress lines 61-81: the branch on the action
ApplyAction(p, topic, action, score) ==
    CASE action = "started" ->
            IF ~In(topic, p.current_modules)
            THEN [p EXCEPT !.current_modules = Append(@, topic)]
            ELSE p
    [] action = "completed" ->
            LET c1 == IF ~In(topic, p.completed_modules)
                      THEN Append(p.completed_modules, topic) ELSE p.completed_modules
                c2 == IF In(topic, p.current_modules)
                      THEN ListRemove(p.current_modules, topic) ELSE p.current_modules
            IN  [p EXCEPT !.completed_modules = c1,
                          !.current_modules = c2,
                          !.overall_score = @ + CompletionAward]
    [] action = "quiz_completed" ->
            LET q == [p EXCEPT !.quizzes_completed = @ + 1, !.total_questions = @ + 1]
            IN  IF score > 0
                THEN [q EXCEPT !.correct_answers = @ + score,
                               !.overall_score = @ + score * QuizPointFactor]
                ELSE q
    [] OTHER -> p

\* update_progress lines 83-89 keeping the first ten topics instead of the last
TouchRecentKeepFirst(p, topic) ==
    LET r1 == IF ~In(topic, p.recent_topics) THEN Append(p.recent_topics, topic) ELSE p.recent_topics
        r2 == IF Len(r1) > MaxRecentTopics THEN SubSeq(r1, 1, MaxRecentTopics) ELSE r1
    IN  [p EXCEPT !.recent_topics = r2]

\* update_progress lines 83-89: recent topics
TouchRecent(p, topic) ==
    LET r1 == IF ~In(topic, p.recent_topics) THEN Append(p.recent_topics, topic) ELSE p.recent_topics
        r2 == IF Len(r1) > MaxRecentTopics THEN LastN(r1, MaxRecentTopics) ELSE r1
    IN  [p EXCEPT !.recent_topics = r2]

\* update_progress without the cap of line 92
ClampScoreMissing(p) == p

\* update_progress line 92: overall_score = min(overall_score, 100)
ClampScore(p) == [p EXCEPT !.overall_score = Min(@, MaxScore)]

\* update_progress without the call of _check_achievements
ApplyEventUnchecked(p, topic, action, score) ==
    UpdateSkillLevels(ClampScore(TouchRecent(ApplyAction(p, topic, action, score), topic)))

\* update_progress lines 57-98 on the record get_user_progress returned
ApplyEvent(p, topic, action, score) ==
    UpdateSkillLevels(CheckAchievements(ClampScore(TouchRecent(ApplyAction(p, topic, action, score), topic))))

\* .date() of a timestamp
DateOf(t) == t \div TicksPerDay

\* update_user_activity counting a day on every call, whatever the date
TickActivityEveryCall(p, t) ==
    LET current_date == DateOf(t)
        has_last == p.last_activity # None
        last_date == IF has_last THEN DateOf(p.last_activity) ELSE None
        p1 == [p EXCEPT !.days_active = @ + 1,
                        !.learning_streak =
                            IF has_last /\ current_date - last_date = 1 THEN @ + 1
                            ELSE IF has_last /\ current_date - last_date > 1 THEN 1
                            ELSE 1]
    IN  [p1 EXCEPT !.last_activity = t]

\* update_user_activity with the streak carried over a gap of two or more days
TickActivityNoGapReset(p, t) ==
    LET current_date == DateOf(t)
        has_last == p.last_activity # None
        last_date == IF has_last THEN DateOf(p.last_activity) ELSE None
        p1 == IF (~has_last) \/ last_date # current_date
              THEN [p EXCEPT !.days_active = @ + 1,
                             !.learning_streak =
                                 IF has_last /\ current_date - last_date >= 1 THEN @ + 1
                                 ELSE 1]
              ELSE p
    IN  [p1 EXCEPT !.last_activity = t]

\* update_user_activity with the streak growing on every call, the calls made
\* on the date of the last activity included
TickActivityStreakEveryCall(p, t) ==
    LET current_date == DateOf(t)
        has_last == p.last_activity # None
        last_date == IF has_last THEN DateOf(p.last_activity) ELSE None
        p1 == IF (~has_last) \/ last_date # current_date
              THEN [p EXCEPT !.days_active = @ + 1,
                             !.learning_streak =
                                 IF has_last /\ current_date - last_date = 1 THEN @ + 1
                                 ELSE IF has_last /\ current_date - last_date > 1 THEN 1
                                 ELSE 1]
              ELSE [p EXCEPT !.learning_streak = @ + 1]
    IN  [p1 EXCEPT !.last_activity = t]

\* update_user_activity followed by the achievement check of update_progress
TickActivityAwards(p, t) ==
    LET current_date == DateOf(t)
        has_last == p.last_activity # None
        last_date == IF has_last THEN DateOf(p.last_activity) ELSE None
        p1 == IF (~has_last) \/ last_date # current_date
              THEN [p EXCEPT !.days_active = @ + 1,
                             !.learning_streak =
                                 IF has_last /\ current_date - last_date = 1 THEN @ + 1
                                 ELSE IF has_last /\ current_date - last_date > 1 THEN 1
                                 ELSE 1]
              ELSE p
    IN  CheckAchievements([p1 EXCEPT !.last_activity = t])

\* update_user_activity lines 106-127 on the record get_user_progress returned
TickActivity(p, t) ==
    LET current_date == DateOf(t)
        has_last == p.last_activity # None
        last_date == IF has_last THEN DateOf(p.last_activity) ELSE None
        p1 == IF (~has_last) \/ last_date # current_date
              THEN [p EXCEPT !.days_active = @ + 1,
                             !.learning_streak =
                                 IF has_last /\ current_date - last_date = 1 THEN @ + 1
                                 ELSE IF has_last /\ current_date - last_date > 1 THEN 1
                                 ELSE 1]
              ELSE p
    IN  [p1 EXCEPT !.last_activity = t]


----------------------------------------------------------------------------
(* State.                                                                  *)

VARIABLES
    users,           \* data/users.json: user id -> identity record
    progress,        \* data/progress.json: user id -> progress record
    memories,        \* data/memories.json: user id -> list of turns
    group_memories,  \* data/group_memories.json: chat id -> list of turns
    now,             \* the clock, datetime.now()
    frame,           \* the locals of the running handle_message coroutine
    suspended,       \* the locals of a handle_message coroutine waiting at an await
    last_op          \* the operation performed last (history)

vars == <<users, progress, memories, group_memories, now, frame, suspended, last_op>>

\* dict.get(key, default) on a JSON file
Get(file, key, default) == IF key \in DOMAIN file THEN file[key] ELSE default

\* the save writing a file read as {}: the key that is saved is all it holds
PutIntoEmptied(file, key, value) == [k \in {key} |-> value]

\* file[key] = value, then the whole file is saved
Put(file, key, value) == [k \in DOMAIN file \cup {key} |-> IF k = key THEN value ELSE file[k]]

\* the empty JSON object {} every file is initialised with
EmptyFile == [k \in {} |-> 0]

\* the record of an operation: its name, the user (or chat) it was called for, its
\* topic, and what was stored before the call (update_progress and
\* reset_user_progress: the overall_score; update_user_activity: the
\* last_activity; else None)
Op(name, u, topic, before) == [op |-> name, user |-> u, topic |-> topic, before |-> before]

\* ProgressTracker.get_user_progress: the stored record, or a fresh one that is saved
UserProgress(u) == Get(progress, u, InitialProgress)

----------------------------------------------------------------------------
(* Operations of ProgressTracker.                                          *)

\* update_progress(user_id, topic, action, score)
UpdateProgress(u, topic, action, score) ==
    /\ progress' = Put(progress, u, ApplyEvent(UserProgress(u), topic, action, score))
    /\ last_op' = Op(action, u, topic, UserProgress(u).overall_score)
    /\ UNCHANGED <<users, memories, group_memories, now, frame, suspended>>

\* update_user_activity(user_id, message)
UpdateUserActivity(u) ==
    /\ progress' = Put(progress, u, TickActivity(UserProgress(u), now))
    /\ last_op' = Op("activity", u, "", UserProgress(u).last_activity)
    /\ UNCHANGED <<users, memories, group_memories, now, frame, suspended>>

\* the reset kept the achievements of the stored record
ResetUserProgressKeepsAchievements(u) ==
    /\ progress' = Put(progress, u,
                       [InitialProgress EXCEPT !.achievements = UserProgress(u).achievements])
    /\ last_op' = Op("reset", u, "", UserProgress(u).overall_score)
    /\ UNCHANGED <<users, memories, group_memories, now, frame, suspended>>

\* reset_user_progress(user_id)
ResetUserProgress(u) ==
    /\ progress' = Put(progress, u, InitialProgress)
    /\ last_op' = Op("reset", u, "", UserProgress(u).overall_score)
    /\ UNCHANGED <<users, memories, group_memories, now, frame, suspended>>

\* time passes: the clock moves forward to a later instant, at most maxNow
AdvanceClock(maxNow) ==
    /\ \E t \in (now + 1)..maxNow : now' = t
    /\ last_op' = Op("clock", 0, "", None)
    /\ UNCHANGED <<users, progress, memories, group_memories, frame, suspended>>

----------------------------------------------------------------------------
(* Operations of DataManager on the conversation ledgers.                  *)

\* if 'timestamp' not in conversation_data: conversation_data['timestamp'] = now
Stamped(conversation_data, t) ==
    IF "timestamp" \in DOMAIN conversation_data
    THEN conversation_data
    ELSE [f \in DOMAIN conversation_data \cup {"timestamp"} |->
             IF f = "timestamp" THEN t ELSE conversation_data[f]]

\* the cap cut the first entries off instead of the last
KeepFirst(lst, cap) == IF Len(lst) > cap THEN SubSeq(lst, 1, cap) ELSE lst

\* if len(lst) > cap: lst = lst[-cap:]
KeepLast(lst, cap) == IF Len(lst) > cap THEN LastN(lst, cap) ELSE lst

\* store_conversation(user_id, conversation_data) on the file's contents
WithConversation(file, key, conversation_data, t, cap) ==
    Put(file, key, KeepLast(Append(Get(file, key, <<>>), Stamped(conversation_data, t)), cap))

\* store_conversation(user_id, conversation_data)
StoreConversation(u, conversation_data) ==
    /\ memories' = WithConversation(memories, u, conversation_data, now, UserLedgerCap)
    /\ last_op' = Op("store_conversation", u, "", None)
    /\ UNCHANGED <<users, progress, group_memories, now, frame, suspended>>

\* store_group_conversation(chat_id, conversation_data)
StoreGroupConversation(c, conversation_data) ==
    /\ group_memories' = WithConversation(group_memories, c, conversation_data, now, GroupLedgerCap)
    /\ last_op' = Op("store_group_conversation", c, "", None)
    /\ UNCHANGED <<users, progress, memories, now, frame, suspended>>

----------------------------------------------------------------------------
(* User Directory: BotConfig.KNOWN_USERS and UserManager.                  *)

\* the characters of a username (as Telegram supplies it or as a caller
\* writes it) and of a roster handle
HandleChars(h) ==
    CASE h = "@Er_Stranger" -> <<"@","E","r","_","S","t","r","a","n","g","e","r">>
    [] h = "@Nexxxyzz" -> <<"@","N","e","x","x","x","y","z","z">>
    [] h = "@pr_amod18" -> <<"@","p","r","_","a","m","o","d","1","8">>
    [] h = "@Extreme747" -> <<"@","E","x","t","r","e","m","e","7","4","7">>
    [] h = "extreme747" -> <<"e","x","t","r","e","m","e","7","4","7">>
    [] h = "NEXXXYZZ" -> <<"N","E","X","X","X","Y","Z","Z">>
    [] h = "stranger" -> <<"s","t","r","a","n","g","e","r">>
    [] h = "" -> <<>>

\* KNOWN_USERS, its handles in the order of the dict
KnownHandles == <<"@Er_Stranger", "@Nexxxyzz", "@pr_amod18", "@Extreme747">>

\* KNOWN_USERS[handle]
KnownUsers(handle) ==
    CASE handle = "@Er_Stranger" -> [name |-> "Neel", role |-> "student"]
    [] handle = "@Nexxxyzz" -> [name |-> "Nex", role |-> "student"]
    [] handle = "@pr_amod18" -> [name |-> "Pramod", role |-> "student"]
    [] handle = "@Extreme747" -> [name |-> "Extreme", role |-> "admin"]

\* get_user_by_username comparing the handles as they are written
GetUserByUsernameExact(cs) ==
    LET search_username == IF cs # <<>> /\ cs[1] = "@" THEN cs ELSE <<"@">> \o cs
        matches(handle) == HandleChars(handle) = search_username
    IN  IF cs = <<>> THEN <<>> ELSE SelectSeq(KnownHandles, matches)

\* BotConfig.get_user_by_username on the characters of the username: the roster
\* entries whose handle matches, in roster order; the code returns the first
\* of them, and None when there is none
GetUserByUsername(cs) ==
    LET search_username == IF cs # <<>> /\ cs[1] = "@" THEN cs ELSE <<"@">> \o cs
        matches(handle) == Lower(HandleChars(handle)) = Lower(search_username)
    IN  IF cs = <<>> THEN <<>> ELSE SelectSeq(KnownHandles, matches)

\* the lookup of register_user: by the username, then by '@' + username
KnownUserInfo(username) ==
    IF username = "" THEN <<>>
    ELSE IF GetUserByUsername(HandleChars(username)) # <<>>
         THEN GetUserByUsername(HandleChars(username))
         ELSE GetUserByUsername(<<"@">> \o HandleChars(username))

\* the user_data with the registration date taken anew at every call
UserDataRestamped(existing_user, u, username, first_name, c, t) ==
    LET known_user_info == KnownUserInfo(username)
        known == known_user_info # <<>>
        info == KnownUsers(known_user_info[1])
        user_data ==
            [ user_id |-> u, username |-> username, first_name |-> first_name,
              chat_id |-> c, registration_date |-> t, last_seen |-> t,
              is_known_user |-> known,
              role |-> IF known THEN info.role ELSE "user",
              display_name |-> IF known THEN info.name ELSE first_name ]
    IN  IF known
        THEN [f \in DOMAIN user_data \cup {"known_as"} |->
                 IF f = "known_as" THEN info.name ELSE user_data[f]]
        ELSE user_data

\* the user_data register_user builds and saves
UserData(existing_user, u, username, first_name, c, t) ==
    LET known_user_info == KnownUserInfo(username)
        known == known_user_info # <<>>
        info == KnownUsers(known_user_info[1])
        user_data ==
            [ user_id |-> u, username |-> username, first_name |-> first_name,
              chat_id |-> c,
              registration_date |-> IF "registration_date" \in DOMAIN existing_user
                                    THEN existing_user.registration_date ELSE t,
              last_seen |-> t,
              is_known_user |-> known,
              role |-> IF known THEN info.role ELSE "user",
              display_name |-> IF known THEN info.name ELSE first_name ]
    IN  IF known
        THEN [f \in DOMAIN user_data \cup {"known_as"} |->
                 IF f = "known_as" THEN info.name ELSE user_data[f]]
        ELSE user_data

\* register_user(user_id, username, first_name, chat_id)
RegisterUser(u, username, first_name, c) ==
    /\ users' = Put(users, u, UserData(Get(users, u, EmptyFile), u, username, first_name, c, now))
    /\ last_op' = Op("register_user", u, "", None)
    /\ UNCHANGED <<progress, memories, group_memories, now, frame, suspended>>

\* get_user_info(user_id): the stored identity, or a default dict that is not stored
GetUserInfo(u) ==
    IF u \in DOMAIN users
    THEN users[u]
    ELSE [ user_id |-> u, username |-> None, first_name |-> "Unknown User",
           display_name |-> "Unknown User", is_known_user |-> FALSE, role |-> "user" ]

----------------------------------------------------------------------------
(* CryptoStocksBot: the handlers of main.py. The application processes one *)
(* update at a time, so a handler starts only when none is running.        *)

\* no handle_message coroutine is running
IdleFrame == [pc |-> "idle"]

\* update.message.chat.type in ['group', 'supergroup']
IsGroup(chat_type) == chat_type \in {"group", "supergroup"}

\* what get_educational_response returns: the generated text, the text it
\* substitutes for an empty response, the text it returns on an exception
GeneratorTexts == {"answer", "could you try rephrasing", "technical difficulties"}

\* the text get_educational_response returns on an exception (gemini_client.py:66)
GenerationFailedText == "technical difficulties"

\* the text of the except branch of handle_message (main.py 350-352)
ApologyText == "trouble processing"

\* the record of an operation that sent a text to the chat
OpSent(name, u, topic, before, text) ==
    [op |-> name, user |-> u, topic |-> topic, before |-> before, text |-> text]

\* the context sequence with the whole user ledger in the group case
AllMemoriesWholeLedger(u, c, chat_type) ==
    IF IsGroup(chat_type)
    THEN Get(group_memories, c, <<>>) \o Get(memories, u, <<>>)
    ELSE Get(memories, u, <<>>)

\* the context sequence of handle_message, lines 301-311
AllMemories(u, c, chat_type) ==
    IF IsGroup(chat_type)
    THEN Get(group_memories, c, <<>>) \o LastN(Get(memories, u, <<>>), UserContextTail)
    ELSE Get(memories, u, <<>>)

\* _format_recent_memories (main.py 402-420): the lines of the conversation
\* history, one record per line; only the last five turns are formatted
FormatRecentMemories(memory_list) ==
    IF memory_list = <<>>
    THEN << [speaker |-> "", user_message |-> None, ai_response |-> "No previous conversations"] >>
    ELSE LET recent == IF Len(memory_list) > 5 THEN LastN(memory_list, 5) ELSE memory_list
             Lines(memory) ==
                 (IF "user_message" \in DOMAIN memory
                  THEN << [speaker |-> memory.user_name, user_message |-> memory.user_message,
                           ai_response |-> ""] >>
                  ELSE <<>>)
                 \o
                 (IF "ai_response" \in DOMAIN memory /\ memory.ai_response # ""
                  THEN << [speaker |-> "Bot", user_message |-> None,
                           ai_response |-> memory.ai_response] >>
                  ELSE <<>>)
             F[i \in 0..Len(recent)] == IF i = 0 THEN <<>> ELSE F[i - 1] \o Lines(recent[i])
         IN  F[Len(recent)]

\* _build_context_prompt (main.py 355-400): the parts of the prompt that depend
\* on the arguments
BuildContextPrompt(user_info, memory_list, user_progress, current_message, chat_type) ==
    [ chat_context      |-> IsGroup(chat_type),
      display_name      |-> user_info.display_name,
      overall_score     |-> user_progress.overall_score,
      completed_modules |-> Len(user_progress.completed_modules),
      recent_topics     |-> user_progress.recent_topics,
      history           |-> FormatRecentMemories(memory_list),
      current_message   |-> current_message ]

\* handle_message with the activity ticked before the generator is called
HandleMessageTicksFirst(u, c, chat_type, text, is_mentioned, is_reply_to_bot, is_called_by_name) ==
    /\ frame.pc = "idle"
    /\ IF IsGroup(chat_type) /\ ~(is_mentioned \/ is_reply_to_bot \/ is_called_by_name)
       THEN /\ last_op' = Op("ignored", u, chat_type, None)
            /\ UNCHANGED <<users, progress, memories, group_memories, now, frame, suspended>>
       ELSE LET user_info == GetUserInfo(u)
                conversation_data ==
                    [ user_message |-> text, user_name |-> user_info.display_name,
                      timestamp |-> now, user_id |-> u, chat_id |-> c,
                      chat_type |-> chat_type ]
            IN  /\ progress' = Put(progress, u, TickActivity(UserProgress(u), now))
                /\ frame' = [ pc |-> "generating", user_id |-> u, chat_id |-> c,
                              chat_type |-> chat_type, message_text |-> text,
                              user_info |-> user_info,
                              conversation_data |-> conversation_data,
                              all_memories |-> AllMemories(u, c, chat_type),
                              user_progress |-> UserProgress(u),
                              context_prompt |->
                                  BuildContextPrompt(user_info, AllMemories(u, c, chat_type),
                                                     UserProgress(u), text, chat_type),
                              fresh |-> /\ u \notin DOMAIN users
                                        /\ u \notin DOMAIN progress
                                        /\ u \notin DOMAIN memories ]
                /\ last_op' = Op("handle_message", u, chat_type, None)
                /\ UNCHANGED <<users, memories, group_memories, now, suspended>>

\* handle_message up to its await of the generator (lines 263-324). A group
\* message that neither mentions the bot, nor replies to it, nor calls it by
\* name is dropped. The field fresh is history: whether the sender had no
\* stored record of any kind when the handler began.
HandleMessage(u, c, chat_type, text, is_mentioned, is_reply_to_bot, is_called_by_name) ==
    /\ frame.pc = "idle"
    /\ IF IsGroup(chat_type) /\ ~(is_mentioned \/ is_reply_to_bot \/ is_called_by_name)
       THEN /\ last_op' = Op("ignored", u, chat_type, None)
            /\ UNCHANGED <<users, progress, memories, group_memories, now, frame, suspended>>
       ELSE LET user_info == GetUserInfo(u)
                conversation_data ==
                    [ user_message |-> text, user_name |-> user_info.display_name,
                      timestamp |-> now, user_id |-> u, chat_id |-> c,
                      chat_type |-> chat_type ]
            IN  /\ progress' = Put(progress, u, UserProgress(u))
                /\ frame' = [ pc |-> "generating", user_id |-> u, chat_id |-> c,
                              chat_type |-> chat_type, message_text |-> text,
                              user_info |-> user_info,
                              conversation_data |-> conversation_data,
                              all_memories |-> AllMemories(u, c, chat_type),
                              user_progress |-> UserProgress(u),
                              context_prompt |->
                                  BuildContextPrompt(user_info, AllMemories(u, c, chat_type),
                                                     UserProgress(u), text, chat_type),
                              fresh |-> /\ u \notin DOMAIN users
                                        /\ u \notin DOMAIN progress
                                        /\ u \notin DOMAIN memories ]
                /\ last_op' = Op("handle_message", u, chat_type, None)
                /\ UNCHANGED <<users, memories, group_memories, now, suspended>>

\* the generator returns and the turn is stored in the ledger of the chat
\* whatever the type of the chat
GeneratorReturnsGroupAlways(ai_response) ==
    /\ frame.pc = "generating"
    /\ LET u == frame.user_id
           conversation_data ==
               [f \in DOMAIN frame.conversation_data \cup {"ai_response"} |->
                   IF f = "ai_response" THEN ai_response ELSE frame.conversation_data[f]]
       IN  /\ group_memories' =
                 WithConversation(group_memories, frame.chat_id, conversation_data,
                                  now, GroupLedgerCap)
           /\ memories' = WithConversation(memories, u, conversation_data, now, UserLedgerCap)
           /\ progress' = Put(progress, u, TickActivity(UserProgress(u), now))
           /\ frame' = [frame EXCEPT !.pc = "replying", !.conversation_data = conversation_data]
           /\ last_op' = Op("stored", u, frame.chat_type, frame.fresh)
           /\ UNCHANGED <<users, now, suspended>>

\* the generator returns and a turn whose generation failed is stored in the
\* group ledger alone
GeneratorReturnsFailureGroupOnly(ai_response) ==
    /\ frame.pc = "generating"
    /\ LET u == frame.user_id
           conversation_data ==
               [f \in DOMAIN frame.conversation_data \cup {"ai_response"} |->
                   IF f = "ai_response" THEN ai_response ELSE frame.conversation_data[f]]
       IN  /\ group_memories' =
                 IF IsGroup(frame.chat_type)
                 THEN WithConversation(group_memories, frame.chat_id, conversation_data,
                                       now, GroupLedgerCap)
                 ELSE group_memories
           /\ memories' =
                 IF IsGroup(frame.chat_type) /\ ai_response = GenerationFailedText
                 THEN memories
                 ELSE WithConversation(memories, u, conversation_data, now, UserLedgerCap)
           /\ progress' = Put(progress, u, TickActivity(UserProgress(u), now))
           /\ frame' = [frame EXCEPT !.pc = "replying", !.conversation_data = conversation_data]
           /\ last_op' = Op("stored", u, frame.chat_type, frame.fresh)
           /\ UNCHANGED <<users, now, suspended>>

\* the generator returns and handle_message writes back what it read before
\* the call: the turn is appended to the ledger it read (private chats) and
\* the activity is ticked on the progress record it read
GeneratorReturnsStale(ai_response) ==
    /\ frame.pc = "generating"
    /\ LET u == frame.user_id
           conversation_data ==
               [f \in DOMAIN frame.conversation_data \cup {"ai_response"} |->
                   IF f = "ai_response" THEN ai_response ELSE frame.conversation_data[f]]
       IN  /\ group_memories' =
                 IF IsGroup(frame.chat_type)
                 THEN WithConversation(group_memories, frame.chat_id, conversation_data,
                                       now, GroupLedgerCap)
                 ELSE group_memories
           /\ memories' =
                 IF IsGroup(frame.chat_type)
                 THEN WithConversation(memories, u, conversation_data, now, UserLedgerCap)
                 ELSE Put(memories, u, KeepLast(Append(frame.all_memories,
                                                       Stamped(conversation_data, now)),
                                                UserLedgerCap))
           /\ progress' = Put(progress, u, TickActivity(frame.user_progress, now))
           /\ frame' = [frame EXCEPT !.pc = "replying", !.conversation_data = conversation_data]
           /\ last_op' = Op("stored", u, frame.chat_type, frame.fresh)
           /\ UNCHANGED <<users, now, suspended>>

\* the generator returns and handle_message runs to its await of the reply
\* (lines 327-346): the turn is stored, then the activity is ticked
GeneratorReturns(ai_response) ==
    /\ frame.pc = "generating"
    /\ LET u == frame.user_id
           conversation_data ==
               [f \in DOMAIN frame.conversation_data \cup {"ai_response"} |->
                   IF f = "ai_response" THEN ai_response ELSE frame.conversation_data[f]]
       IN  /\ group_memories' =
                 IF IsGroup(frame.chat_type)
                 THEN WithConversation(group_memories, frame.chat_id, conversation_data,
                                       now, GroupLedgerCap)
                 ELSE group_memories
           /\ memories' = WithConversation(memories, u, conversation_data, now, UserLedgerCap)
           /\ progress' = Put(progress, u, TickActivity(UserProgress(u), now))
           /\ frame' = [frame EXCEPT !.pc = "replying", !.conversation_data = conversation_data]
           /\ last_op' = Op("stored", u, frame.chat_type, frame.fresh)
           /\ UNCHANGED <<users, now, suspended>>

\* reply_text(clean_response) returns: the handler is done
ReplySent ==
    /\ frame.pc = "replying"
    /\ frame' = IdleFrame
    /\ last_op' = OpSent("replied", frame.user_id, frame.chat_type, frame.fresh,
                         frame.conversation_data.ai_response)
    /\ UNCHANGED <<users, progress, memories, group_memories, now, suspended>>

\* reply_text(clean_response) raises: the except branch sends the apology
ReplyFails ==
    /\ frame.pc = "replying"
    /\ frame' = [frame EXCEPT !.pc = "apologising"]
    /\ last_op' = Op("reply_failed", frame.user_id, frame.chat_type, frame.fresh)
    /\ UNCHANGED <<users, progress, memories, group_memories, now, suspended>>

\* the reply_text of the except branch returns or raises: the handler is done
ApologyDone(sent) ==
    /\ frame.pc = "apologising"
    /\ frame' = IdleFrame
    /\ last_op' = IF sent
                   THEN OpSent("apologised", frame.user_id, frame.chat_type, frame.fresh,
                               ApologyText)
                   ELSE Op("apology_failed", frame.user_id, frame.chat_type, frame.fresh)
    /\ UNCHANGED <<users, progress, memories, group_memories, now, suspended>>

\* two updates handled concurrently: the event loop resumes the waiting
\* coroutine and the running one waits. A coroutine gives up control only at
\* an await (the generator call of line 324, the reply sends of lines 346 and
\* 350), which is where a frame that is not idle stands.
Switch ==
    /\ frame # suspended
    /\ frame' = suspended
    /\ suspended' = frame
    /\ last_op' = Op("switch", 0, "", None)
    /\ UNCHANGED <<users, progress, memories, group_memories, now>>

\* /start: register_user with the sender's username and first name
Start(u, username, first_name, c) ==
    /\ frame.pc = "idle"
    /\ RegisterUser(u, username, IF first_name = "" THEN "Unknown" ELSE first_name, c)

\* /crypto, /stocks, /blockchain, /technical_analysis, /risk_management
ModuleCommand(u, topic) ==
    /\ frame.pc = "idle"
    /\ UpdateProgress(u, topic, "started", 0)

\* /learn, /progress: get_user_progress, which stores a fresh record if none is stored
ProgressCommand(u) ==
    /\ frame.pc = "idle"
    /\ progress' = Put(progress, u, UserProgress(u))
    /\ last_op' = Op("get_user_progress", u, "", None)
    /\ UNCHANGED <<users, memories, group_memories, now, frame, suspended>>

\* /reset
ResetCommand(u) ==
    /\ frame.pc = "idle"
    /\ ResetUserProgress(u)

----------------------------------------------------------------------------
(* DataManager.cleanup_old_data.                                           *)

\* a 'timestamp' that datetime.fromisoformat rejects
Garbled == -2

\* datetime.fromisoformat(timestamp).timestamp(): the instant, in a list, of a
\* timestamp that parses, the empty list for one that raises
FromIsoFormat(timestamp) == IF timestamp >= 0 THEN <<timestamp>> ELSE <<>>

\* the test of the loop with the entries that raise dropped
KeepsConversationStrict(conversation, cutoff_date) ==
    /\ "timestamp" \in DOMAIN conversation
    /\ FromIsoFormat(conversation.timestamp) # <<>>
    /\ FromIsoFormat(conversation.timestamp)[1] > cutoff_date

\* lines 203-209: the conversation is kept if its timestamp is later than the
\* cutoff, and if reading or parsing the timestamp raises
KeepsConversation(conversation, cutoff_date) ==
    IF "timestamp" \in DOMAIN conversation /\ FromIsoFormat(conversation.timestamp) # <<>>
    THEN FromIsoFormat(conversation.timestamp)[1] > cutoff_date
    ELSE TRUE

\* cleanup_old_data(days_to_keep)
CleanupOldData(days_to_keep) ==
    LET cutoff_date == now - days_to_keep * TicksPerDay
    IN  /\ memories' = [u \in DOMAIN memories |->
                           SelectSeq(memories[u], LAMBDA c : KeepsConversation(c, cutoff_date))]
        /\ last_op' = Op("cleanup_old_data", 0, "", days_to_keep)
        /\ UNCHANGED <<users, progress, group_memories, now, frame, suspended>>

Init ==
    /\ users = EmptyFile
    /\ progress = EmptyFile
    /\ memories = EmptyFile
    /\ group_memories = EmptyFile
    /\ now = 0
    /\ frame = IdleFrame
    /\ suspended = IdleFrame
    /\ last_op = Op("init", 0, "", None)

----------------------------------------------------------------------------
(* Spec: the learning events of one user.                                  *)

\* the users and the group chats the specifications draw from (Telegram ids:
\* a private chat has the id of its user, a group chat a negative id)
Users == {1, 2}
GroupChats == {-100}
SuperGroupChats == {-200}

LearnUser == CHOOSE u \in Users : \A v \in Users : u <= v
LearnTopics == {"crypto_basics", "technical_analysis"}
Actions == {"started", "completed", "quiz_completed"}
LearnScores == {-1, 0, 1, 30}

LearnEvent ==
    \E topic \in LearnTopics, action \in Actions, score \in LearnScores :
        /\ action = "quiz_completed" => UserProgress(LearnUser).quizzes_completed < MaxQuizzes
        /\ action # "quiz_completed" => score = 0
        /\ UpdateProgress(LearnUser, topic, action, score)

LearnActivity == UpdateUserActivity(LearnUser)

LearnReset == ResetUserProgress(LearnUser)

LearnClock == AdvanceClock(MaxNow)

Next == LearnEvent \/ LearnActivity \/ LearnReset \/ LearnClock

Spec == Init /\ [][Next]_vars

----------------------------------------------------------------------------
(* SpecQuiz: one user taking quizzes on one topic, completing it, being    *)
(* active and resetting.                                                   *)

QuizTopic == "crypto_basics"
QuizScores == {-1, 0, 1, 2}

QuizEvent ==
    \E score \in QuizScores :
        /\ UserProgress(LearnUser).quizzes_completed < MaxQuizRun
        /\ UpdateProgress(LearnUser, QuizTopic, "quiz_completed", score)

QuizComplete == UpdateProgress(LearnUser, QuizTopic, "completed", 0)

QuizActivity == UpdateUserActivity(LearnUser)

QuizReset == ResetUserProgress(LearnUser)

NextQuiz == QuizEvent \/ QuizComplete \/ QuizActivity \/ QuizReset

SpecQuiz == Init /\ [][NextQuiz]_vars

----------------------------------------------------------------------------
(* SpecActivity: one user being active over several calendar days.         *)

ActivityTopic == "crypto_basics"
ActivityMaxNow == ActivityDays * TicksPerDay - 1

ActivityTick == UpdateUserActivity(LearnUser)

ActivityStarted == UpdateProgress(LearnUser, ActivityTopic, "started", 0)

ActivityReset == ResetUserProgress(LearnUser)

ActivityClock == AdvanceClock(ActivityMaxNow)

NextActivity == ActivityTick \/ ActivityStarted \/ ActivityReset \/ ActivityClock

SpecActivity == Init /\ [][NextActivity]_vars

----------------------------------------------------------------------------
(* SpecLedger: turns stored into one user ledger and one group ledger.     *)
(* The texts stored into a ledger are numbered consecutively, so that each *)
(* turn of a ledger is told from the others.                               *)

LedgerUser == LearnUser
LedgerChat == CHOOSE c \in GroupChats : TRUE

\* the number of the text stored last into a ledger, 0 for an empty ledger
LastText(ledger) == IF ledger = <<>> THEN 0 ELSE ledger[Len(ledger)].user_message

\* the conversation_data a caller hands to the store, without a timestamp
Turn(text, u, c, kind) ==
    [ user_message |-> text, user_name |-> "Student", user_id |-> u,
      chat_id |-> c, chat_type |-> kind, ai_response |-> "reply" ]

LedgerStore ==
    LET text == LastText(Get(memories, LedgerUser, <<>>)) + 1
    IN  /\ text <= MaxUserTexts
        /\ StoreConversation(LedgerUser, Turn(text, LedgerUser, LedgerUser, "private"))

LedgerGroupStore ==
    LET text == LastText(Get(group_memories, LedgerChat, <<>>)) + 1
    IN  /\ text <= MaxGroupTexts
        /\ StoreGroupConversation(LedgerChat, Turn(text, LedgerUser, LedgerChat, "group"))

NextLedger == LedgerStore \/ LedgerGroupStore

SpecLedger == Init /\ [][NextLedger]_vars

----------------------------------------------------------------------------
(* SpecContext: two users writing to the bot in a private chat, a group    *)
(* and a supergroup; every message is answered. The texts of a user are    *)
(* numbered consecutively.                                                 *)

ContextUser == LearnUser
OtherUser == CHOOSE u \in Users : u # ContextUser

\* the chats a user writes in, with their types: the user's private chat, the
\* group and the supergroup
ChatsOf(u) ==
    {[id |-> u, type |-> "private"]}
        \cup {[id |-> c, type |-> "group"] : c \in GroupChats}
        \cup {[id |-> c, type |-> "supergroup"] : c \in SuperGroupChats}

\* the number of turns stored in the user ledgers
StoredTurns == Len(Get(memories, ContextUser, <<>>)) + Len(Get(memories, OtherUser, <<>>))

ContextMessage ==
    \E u \in Users : \E chat \in ChatsOf(u) :
        /\ StoredTurns < MaxContextTexts
        /\ u = OtherUser => chat.type = "group"
        /\ HandleMessage(u, chat.id, chat.type, LastText(Get(memories, u, <<>>)) + 1,
                         TRUE, FALSE, FALSE)

ContextGenerated == GeneratorReturns("answer")

ContextReplied == ReplySent

NextContext == ContextMessage \/ ContextGenerated \/ ContextReplied

SpecContext == Init /\ [][NextContext]_vars

----------------------------------------------------------------------------
(* SpecBot: the updates of one user, handled one at a time, while time     *)
(* passes: messages in the private chat and in a group, /start, a module   *)
(* command, /progress and /reset.                                          *)

\* the sender as Telegram describes them: without username and first name, or
\* with both
BotSenders == { [username |-> "", first_name |-> ""],
                [username |-> "extreme747", first_name |-> "Ann"] }

BotMessage ==
    \E chat \in ChatsOf(ContextUser) :
        \E is_mentioned, is_reply_to_bot, is_called_by_name \in BOOLEAN :
            /\ StoredTurns < MaxBotTexts
            /\ chat.type # "supergroup"
            /\ HandleMessage(ContextUser, chat.id, chat.type,
                             LastText(Get(memories, ContextUser, <<>>)) + 1,
                             is_mentioned, is_reply_to_bot, is_called_by_name)

BotGenerated == \E ai_response \in GeneratorTexts : GeneratorReturns(ai_response)

BotReplied == ReplySent

BotReplyFails == ReplyFails

BotApologyDone == \E sent \in BOOLEAN : ApologyDone(sent)

BotStart ==
    \E sender \in BotSenders :
        Start(ContextUser, sender.username, sender.first_name, ContextUser)

BotModule == ModuleCommand(ContextUser, "crypto_basics")

BotProgress == ProgressCommand(ContextUser)

BotReset == ResetCommand(ContextUser)

BotClock == AdvanceClock(MaxNow)

NextBot ==
    \/ BotMessage \/ BotGenerated \/ BotReplied \/ BotReplyFails \/ BotApologyDone
    \/ BotStart \/ BotModule \/ BotProgress \/ BotReset \/ BotClock

SpecBot == Init /\ [][NextBot]_vars

----------------------------------------------------------------------------
(* SpecReset: one user with an identity, a progress record and ledgers,    *)
(* resetting the progress.                                                 *)

ResetTopics == {"crypto_basics", "blockchain", "cryptocurrency_basics"}

ResetCompleted ==
    \E topic \in ResetTopics :
        /\ UserProgress(LearnUser).overall_score < MaxResetScore
        /\ UpdateProgress(LearnUser, topic, "completed", 0)

ResetTick == UpdateUserActivity(LearnUser)

ResetStore ==
    LET text == LastText(Get(memories, LearnUser, <<>>)) + 1
    IN  /\ text <= MaxResetTexts
        /\ StoreConversation(LearnUser, Turn(text, LearnUser, LearnUser, "private"))

ResetGroupStore ==
    LET text == LastText(Get(group_memories, LedgerChat, <<>>)) + 1
    IN  /\ text <= MaxResetTexts
        /\ StoreGroupConversation(LedgerChat, Turn(text, LearnUser, LedgerChat, "group"))

ResetRegister ==
    \E username \in {"", "extreme747"} : RegisterUser(LearnUser, username, "Ann", LearnUser)

ResetReset == ResetUserProgress(LearnUser)

NextReset ==
    \/ ResetCompleted \/ ResetTick \/ ResetStore \/ ResetGroupStore
    \/ ResetRegister \/ ResetReset

SpecReset == Init /\ [][NextReset]_vars

----------------------------------------------------------------------------
(* SpecModules: one user starting and completing three modules, in any     *)
(* order and any number of times, and resetting.                           *)

ModulesTopics == {"crypto_basics", "blockchain", "technical_analysis"}

ModulesStarted ==
    \E topic \in ModulesTopics : UpdateProgress(LearnUser, topic, "started", 0)

ModulesCompleted ==
    \E topic \in ModulesTopics :
        /\ UserProgress(LearnUser).overall_score < MaxModulesScore
        /\ UpdateProgress(LearnUser, topic, "completed", 0)

ModulesReset == ResetUserProgress(LearnUser)

NextModules == ModulesStarted \/ ModulesCompleted \/ ModulesReset

SpecModules == Init /\ [][NextModules]_vars

----------------------------------------------------------------------------
(* SpecHandler: the messages of one user in the private chat, the group    *)
(* and the supergroup, handled one at a time with every generator text and *)
(* with replies that fail, and the module command, while time passes.     *)

HandlerMessage ==
    \E chat \in ChatsOf(ContextUser) :
        \E is_mentioned, is_reply_to_bot, is_called_by_name \in BOOLEAN :
            /\ Len(Get(memories, ContextUser, <<>>)) < MaxHandlerTexts
            /\ HandleMessage(ContextUser, chat.id, chat.type,
                             LastText(Get(memories, ContextUser, <<>>)) + 1,
                             is_mentioned, is_reply_to_bot, is_called_by_name)

HandlerGenerated == \E ai_response \in GeneratorTexts : GeneratorReturns(ai_response)

HandlerReplied == ReplySent

HandlerReplyFails == ReplyFails

HandlerApologyDone == \E sent \in BOOLEAN : ApologyDone(sent)

HandlerModule == ModuleCommand(ContextUser, "crypto_basics")

HandlerClock == AdvanceClock(MaxNow)

NextHandler ==
    \/ HandlerMessage \/ HandlerGenerated \/ HandlerReplied \/ HandlerReplyFails
    \/ HandlerApologyDone \/ HandlerModule \/ HandlerClock

SpecHandler == Init /\ [][NextHandler]_vars

----------------------------------------------------------------------------
(* SpecCleanup: two users storing turns, stamped by the store or carrying  *)
(* a timestamp that does not parse, and the cleanup, while time passes.    *)

\* the conversation_data of a caller: without a timestamp, or with a garbled one
CleanupTurns(text, u) ==
    { Turn(text, u, u, "private"),
      [f \in DOMAIN Turn(text, u, u, "private") \cup {"timestamp"} |->
          IF f = "timestamp" THEN Garbled ELSE Turn(text, u, u, "private")[f]] }

CleanupStore ==
    \E u \in Users :
        LET text == LastText(Get(memories, u, <<>>)) + 1
        IN  /\ StoredTurns < MaxCleanupTexts
            /\ \E conversation_data \in CleanupTurns(text, u) :
                   StoreConversation(u, conversation_data)

CleanupRun == \E days_to_keep \in 0..MaxDaysToKeep : CleanupOldData(days_to_keep)

CleanupClock == AdvanceClock(MaxCleanupNow)

NextCleanup == CleanupStore \/ CleanupRun \/ CleanupClock

SpecCleanup == Init /\ [][NextCleanup]_vars

----------------------------------------------------------------------------
(* SpecDirectory: two users registering, again and again, under usernames  *)
(* written in several ways, while time passes.                             *)

\* no username, the admin's handle in lower case, a student's in capitals, a
\* student's with its '@', and a username that is not on the roster
DirectoryUsernames == {"", "extreme747", "NEXXXYZZ", "@pr_amod18", "stranger"}
DirectoryFirstNames == {"Ann", "Unknown"}

DirectoryRegister ==
    \E u \in Users, username \in DirectoryUsernames, first_name \in DirectoryFirstNames :
        RegisterUser(u, username, first_name, u)

DirectoryClock == AdvanceClock(MaxNow)

NextDirectory == DirectoryRegister \/ DirectoryClock

SpecDirectory == Init /\ [][NextDirectory]_vars

----------------------------------------------------------------------------
(* SpecAchieve: one user following a course of three modules, taking       *)
(* quizzes and being active day after day.                                 *)

AchieveCourse == <<"crypto_basics", "blockchain", "technical_analysis">>
AchieveScores == {1, 10}

\* the next module of the course is completed
AchieveCompleted ==
    \E i \in 1..Len(AchieveCourse) :
        /\ i = Len(UserProgress(LearnUser).completed_modules) + 1
        /\ UpdateProgress(LearnUser, AchieveCourse[i], "completed", 0)

AchieveQuiz ==
    \E score \in AchieveScores :
        /\ UserProgress(LearnUser).quizzes_completed < MaxAchieveQuizzes
        /\ UpdateProgress(LearnUser, AchieveCourse[1], "quiz_completed", score)

AchieveTick == UpdateUserActivity(LearnUser)

\* midnight: the clock moves to the next calendar day
AchieveClock ==
    /\ DateOf(now) + 1 < AchieveDays
    /\ now' = (DateOf(now) + 1) * TicksPerDay
    /\ last_op' = Op("clock", 0, "", None)
    /\ UNCHANGED <<users, progress, memories, group_memories, frame, suspended>>

NextAchieve == AchieveCompleted \/ AchieveQuiz \/ AchieveTick \/ AchieveClock

SpecAchieve == Init /\ [][NextAchieve]_vars

----------------------------------------------------------------------------
(* SpecSkills: one user following two courses, module after module, the    *)
(* two courses interleaved in any way, and resetting.                      *)

SkillsCryptoCourse ==
    << "crypto_basics", "blockchain", "Crypto_Wallets", "cryptocurrency_basics",
       "blockchain_technology" >>
SkillsMarketsCourse ==
    << "stocks_basics", "stock_market_fundamentals", "trading_strategies",
       "technical_analysis", "risk_management", "fundamental_analysis" >>

\* the modules of a course the user has completed
SkillsDone(course) ==
    SelectSeq(UserProgress(LearnUser).completed_modules, LAMBDA m : In(m, course))

\* the next module of a course is completed
SkillsCompleted ==
    \E course \in {SkillsCryptoCourse, SkillsMarketsCourse} :
        /\ Len(SkillsDone(course)) < Len(course)
        /\ UpdateProgress(LearnUser, course[Len(SkillsDone(course)) + 1], "completed", 0)

SkillsReset == ResetUserProgress(LearnUser)

NextSkills == SkillsCompleted \/ SkillsReset

SpecSkills == Init /\ [][NextSkills]_vars

----------------------------------------------------------------------------
(* SpecRecent: one user going round a course of twelve modules, starting   *)
(* or completing the module after the one touched last, or a module that   *)
(* is among the recent topics.                                             *)

RecentCourse ==
    << "crypto_basics", "stocks_basics", "blockchain", "technical_analysis",
       "risk_management", "Crypto_Wallets", "trading_strategies",
       "fundamental_analysis", "cryptocurrency_basics", "blockchain_technology",
       "portfolio_management", "stock_market_fundamentals" >>

\* the module of the course after the most recent topic
RecentNext ==
    LET r == UserProgress(LearnUser).recent_topics
    IN  IF r = <<>> THEN RecentCourse[1]
        ELSE RecentCourse[(FirstIndex(r[Len(r)], RecentCourse) % Len(RecentCourse)) + 1]

RecentEvent ==
    \E i \in 1..Len(RecentCourse), action \in {"started", "completed"} :
        /\ RecentCourse[i] = RecentNext \/ In(RecentCourse[i], UserProgress(LearnUser).recent_topics)
        /\ action = "completed" => UserProgress(LearnUser).overall_score < CompletionAward
        /\ UpdateProgress(LearnUser, RecentCourse[i], action, 0)

RecentReset == ResetUserProgress(LearnUser)

NextRecent == RecentEvent \/ RecentReset

SpecRecent == Init /\ [][NextRecent]_vars

----------------------------------------------------------------------------
(* SpecInterleaved: the messages of one user handled by two coroutines at  *)
(* a time, each waiting at its generator call and at its reply sends while *)
(* the other runs, in the private chat and in the group, and the module    *)
(* command, while time passes. The texts of the user are numbered in the   *)
(* order the handlers begin.                                               *)

\* the messages whose handling has begun
InterleavedBegun ==
    Len(Get(memories, ContextUser, <<>>)) + (IF suspended.pc = "generating" THEN 1 ELSE 0)

InterleavedMessage ==
    \E chat \in {ch \in ChatsOf(ContextUser) : ch.type \in {"private", "group"}} :
        /\ InterleavedBegun < MaxInterleavedTexts
        /\ HandleMessage(ContextUser, chat.id, chat.type, InterleavedBegun + 1,
                         TRUE, FALSE, FALSE)

InterleavedGenerated == GeneratorReturns("answer")

InterleavedReplied == ReplySent

InterleavedReplyFails == ReplyFails

InterleavedApologyDone == \E sent \in BOOLEAN : ApologyDone(sent)

InterleavedSwitch == Switch

InterleavedModule == ModuleCommand(ContextUser, "crypto_basics")

InterleavedClock == AdvanceClock(MaxNow)

NextInterleaved ==
    \/ InterleavedMessage \/ InterleavedGenerated \/ InterleavedReplied
    \/ InterleavedReplyFails \/ InterleavedApologyDone \/ InterleavedSwitch
    \/ InterleavedModule \/ InterleavedClock

SpecInterleaved == Init /\ [][NextInterleaved]_vars

----------------------------------------------------------------------------
(* SpecSkew: one user being active, starting a module and resetting, while *)
(* the clock of the host is set to any instant, earlier ones included.     *)

SkewMaxNow == SkewDays * TicksPerDay - 1

SkewTick ==
    /\ UserProgress(LearnUser).days_active < MaxSkewActive
    /\ UpdateUserActivity(LearnUser)

SkewStarted == UpdateProgress(LearnUser, ActivityTopic, "started", 0)

SkewReset == ResetUserProgress(LearnUser)

\* datetime.now() after the clock of the host was set: any other instant
SkewSetClock ==
    /\ \E t \in 0..SkewMaxNow : t # now /\ now' = t
    /\ last_op' = Op("clock", 0, "", None)
    /\ UNCHANGED <<users, progress, memories, group_memories, frame, suspended>>

NextSkew == SkewTick \/ SkewStarted \/ SkewReset \/ SkewSetClock

SpecSkew == Init /\ [][NextSkew]_vars

----------------------------------------------------------------------------
(* SpecIsolation: two users, each starting and completing a module, being  *)
(* active, resetting, having a turn stored and registering, in any order.  *)

IsolationTopic == "crypto_basics"

IsolationEvent ==
    \E u \in Users, action \in {"started", "completed"} :
        /\ action = "completed" => UserProgress(u).overall_score < CompletionAward
        /\ UpdateProgress(u, IsolationTopic, action, 0)

IsolationTick == \E u \in Users : UpdateUserActivity(u)

IsolationReset == \E u \in Users : ResetUserProgress(u)

IsolationStore ==
    \E u \in Users :
        /\ Len(Get(memories, u, <<>>)) < MaxIsolationTexts
        /\ StoreConversation(u, Turn(LastText(Get(memories, u, <<>>)) + 1, u, u, "private"))

IsolationRegister == \E u \in Users : RegisterUser(u, "extreme747", "Ann", u)

NextIsolation ==
    \/ IsolationEvent \/ IsolationTick \/ IsolationReset \/ IsolationStore
    \/ IsolationRegister

SpecIsolation == Init /\ [][NextIsolation]_vars

----------------------------------------------------------------------------
(* Claims.                                                                 *)

Domains == {"crypto", "stocks", "trading"}

Rank(level) == CASE level = "beginner" -> 0 [] level = "intermediate" -> 1 [] level = "advanced" -> 2

\* the record of the user the last operation was called for
Rec == progress[LearnUser]

\* C1: after any sequence of update_progress events (any action, any score) and
\* activity ticks, overall_score is in [0,100] in every stored progress record.
C1_ScoreInRange ==
    \A u \in DOMAIN progress : progress[u].overall_score >= 0 /\ progress[u].overall_score <= MaxScore

\* C1 witness: a quiz worth more than 100 points was just counted on an active
\* record, and the stored score is the cap.
C1_Witness ==
    /\ LearnUser \in DOMAIN progress
    /\ last_op.op = "quiz_completed"
    /\ last_op.before + (Rec.correct_answers * QuizPointFactor) > MaxScore
    /\ Rec.correct_answers * QuizPointFactor > MaxScore
    /\ Rec.overall_score = MaxScore
    /\ Rec.days_active >= 1

\* C2: an achievement in a user's achievements stays there across every later
\* update_progress or update_user_activity call (every operation but a reset),
\* also when the record no longer meets the achievement's threshold.
C2_AchievementsKept ==
    [][ last_op'.op # "reset" =>
            \A u \in DOMAIN progress :
                /\ u \in DOMAIN progress'
                /\ \A i \in 1..Len(progress[u].achievements) :
                       In(progress[u].achievements[i], progress'[u].achievements) ]_vars

\* C2 witness: 'Perfect Score' is still held right after a quiz that left
\* correct_answers different from total_questions.
C2_Witness ==
    /\ LearnUser \in DOMAIN progress
    /\ last_op.op = "quiz_completed"
    /\ In("Perfect Score", Rec.achievements)
    /\ Rec.correct_answers # Rec.total_questions

\* C3: no update_progress call (and no operation other than reset_user_progress)
\* lowers the level of a skill domain.
C3_LevelsNeverDrop ==
    [][ last_op'.op # "reset" =>
            \A u \in DOMAIN progress, d \in Domains :
                Rank(progress'[u].skill_levels[d]) >= Rank(progress[u].skill_levels[d]) ]_vars

\* C3 witness: update_progress has just run (a quiz that earned nothing) on a
\* record whose score was 80 or more, and every level is still advanced.
C3_Witness ==
    /\ LearnUser \in DOMAIN progress
    /\ last_op.op = "quiz_completed"
    /\ last_op.before >= 80
    /\ Rec.correct_answers = 0
    /\ \A d \in Domains : Rec.skill_levels[d] = "advanced"

\* C5: right after a 'completed' event on a topic, however many 'started' events
\* on it came first, the topic is in completed_modules and not in current_modules.
C5_CompletedMovesTopic ==
    last_op.op = "completed" =>
        /\ In(last_op.topic, progress[last_op.user].completed_modules)
        /\ ~In(last_op.topic, progress[last_op.user].current_modules)

\* C5 witness: the first 'completed' event of a record that saw no quiz, on the
\* topic that entered recent_topics first while the other topic was started
\* after it: the completed topic had been started, and it has left
\* current_modules.
C5_Witness ==
    /\ last_op.op = "completed"
    /\ last_op.before = 0
    /\ Rec.overall_score = CompletionAward
    /\ Rec.quizzes_completed = 0
    /\ Len(Rec.current_modules) = 1
    /\ Rec.recent_topics = <<last_op.topic, Rec.current_modules[1]>>
    /\ Rec.completed_modules = <<last_op.topic>>

\* C6: an activity tick on the calendar date of the record's last_activity
\* leaves days_active and learning_streak unchanged.
C6_SameDateTick ==
    [][ ( /\ last_op'.op = "activity"
          /\ last_op'.user \in DOMAIN progress
          /\ progress[last_op'.user].last_activity # None
          /\ DateOf(progress[last_op'.user].last_activity) = DateOf(now) )
        => /\ progress'[last_op'.user].days_active = progress[last_op'.user].days_active
           /\ progress'[last_op'.user].learning_streak = progress[last_op'.user].learning_streak ]_vars

\* C6 witness: a tick at a later instant of the day of the previous tick, on a
\* record with a streak of several days.
C6_Witness ==
    /\ last_op.op = "activity"
    /\ last_op.before # None
    /\ last_op.before # now
    /\ DateOf(last_op.before) = DateOf(now)
    /\ Rec.learning_streak = 3
    /\ Rec.days_active = 3

\* C7: an activity tick on a date other than the date of last_activity adds
\* exactly 1 to days_active, and sets learning_streak to old+1 when the previous
\* activity was one day earlier, to 1 when it was two or more days earlier and to
\* 1 when there was none.
C7_NewDateTick ==
    [][ ( /\ last_op'.op = "activity"
          /\ \/ UserProgress(last_op'.user).last_activity = None
             \/ DateOf(UserProgress(last_op'.user).last_activity) # DateOf(now) )
        => LET old == UserProgress(last_op'.user)
               new == progress'[last_op'.user]
               gap == DateOf(now) - DateOf(old.last_activity)
           IN  /\ new.days_active = old.days_active + 1
               /\ old.last_activity = None => new.learning_streak = 1
               /\ (old.last_activity # None /\ gap = 1) => new.learning_streak = old.learning_streak + 1
               /\ (old.last_activity # None /\ gap >= 2) => new.learning_streak = 1 ]_vars

\* C7 witness: a tick two or more days after the previous one, on a record that
\* had been active on several days, has put the streak back to 1.
C7_Witness ==
    /\ last_op.op = "activity"
    /\ last_op.before # None
    /\ DateOf(now) - DateOf(last_op.before) >= 2
    /\ Rec.days_active >= 3
    /\ Rec.learning_streak = 1

\* what a store must turn a ledger into: the old turns in order, the new turn
\* last (its text is the next number), the oldest turn gone when the cap is passed
StoredWithin(old, new, cap) ==
    /\ Len(new) <= cap
    /\ Len(new) = Min(Len(old) + 1, cap)
    /\ new[Len(new)].user_message = LastText(old) + 1
    /\ \A i \in 1..(Len(new) - 1) : new[i] = old[Len(old) - (Len(new) - 1) + i]

\* C4: after every store_conversation the user ledger holds at most 50 turns,
\* after every store_group_conversation the group ledger at most 100; past the
\* cap the oldest turns are dropped, the others keep their order and the new
\* turn is last.
C4_LedgerCaps ==
    [][ /\ last_op'.op = "store_conversation" =>
              StoredWithin(Get(memories, last_op'.user, <<>>), memories'[last_op'.user], 50)
        /\ last_op'.op = "store_group_conversation" =>
              StoredWithin(Get(group_memories, last_op'.user, <<>>), group_memories'[last_op'.user], 100) ]_vars

\* C4 witness: the 51st turn has just been stored into the user ledger, which
\* holds the 50 turns 2..51, and the group ledger holds the 100 turns 2..101.
C4_Witness ==
    /\ last_op.op = "store_conversation"
    /\ LedgerUser \in DOMAIN memories
    /\ LedgerChat \in DOMAIN group_memories
    /\ Len(memories[LedgerUser]) = 50
    /\ memories[LedgerUser][1].user_message = 2
    /\ memories[LedgerUser][50].user_message = 51
    /\ Len(group_memories[LedgerChat]) = 100
    /\ group_memories[LedgerChat][1].user_message = 2
    /\ group_memories[LedgerChat][100].user_message = 101

\* the context sequence a running handler holds, and the two ledgers it was
\* read from (no ledger changes while the handler waits for the generator)
ContextGroupLedger == Get(group_memories, frame.chat_id, <<>>)
ContextUserLedger == Get(memories, frame.user_id, <<>>)

\* C8: for a group or supergroup message the context sequence handed to the
\* prompt builder is the whole per-group ledger followed by the last entries, at
\* most 5, of the sender's per-user ledger: the group entries come first, in
\* order, and the user part is the ledger's tail of min(5, ledger size) entries.
C8_GroupContext ==
    (frame.pc = "generating" /\ frame.chat_type \in {"group", "supergroup"}) =>
        LET k == Len(frame.all_memories) - Len(ContextGroupLedger)
        IN  /\ k >= 0
            /\ k <= 5
            /\ k = Min(5, Len(ContextUserLedger))
            /\ \A i \in 1..Len(ContextGroupLedger) :
                   frame.all_memories[i] = ContextGroupLedger[i]
            /\ \A i \in 1..k :
                   frame.all_memories[Len(ContextGroupLedger) + i]
                       = ContextUserLedger[Len(ContextUserLedger) - k + i]

\* a group message of a user whose ledger holds more than 5 turns, the last one
\* from the private chat, while the group ledger holds a turn of the other user
C8_Witness ==
    /\ frame.pc = "generating"
    /\ frame.chat_type = "group"
    /\ Len(ContextUserLedger) > 5
    /\ Len(ContextGroupLedger) >= 2
    /\ \E i \in 1..Len(ContextGroupLedger) : ContextGroupLedger[i].user_id # frame.user_id
    /\ ContextUserLedger[Len(ContextUserLedger)].chat_type = "private"
    /\ Len(frame.all_memories) = Len(ContextGroupLedger) + 5

\* C9: reset_user_progress stores the zero-value record (score 0, no
\* achievements, no completed and no current modules, every skill level
\* beginner, streak 0, days_active 0) and leaves the user's ledger, every group
\* ledger and the user's identity as they were.
C9_ResetFrame ==
    [][ last_op'.op = "reset" =>
            LET u == last_op'.user
            IN  /\ u \in DOMAIN progress'
                /\ progress'[u].overall_score = 0
                /\ progress'[u].achievements = <<>>
                /\ progress'[u].completed_modules = <<>>
                /\ progress'[u].current_modules = <<>>
                /\ \A d \in Domains : progress'[u].skill_levels[d] = "beginner"
                /\ progress'[u].learning_streak = 0
                /\ progress'[u].days_active = 0
                /\ (u \in DOMAIN memories') = (u \in DOMAIN memories)
                /\ Get(memories', u, <<>>) = Get(memories, u, <<>>)
                /\ group_memories' = group_memories
                /\ (u \in DOMAIN users') = (u \in DOMAIN users)
                /\ Get(users', u, EmptyFile) = Get(users, u, EmptyFile) ]_vars

\* a reset of a record that had a score of 30, with turns in both ledgers and a
\* known identity stored
C9_Witness ==
    /\ last_op.op = "reset"
    /\ last_op.before = 30
    /\ LearnUser \in DOMAIN memories
    /\ Len(memories[LearnUser]) = 2
    /\ LedgerChat \in DOMAIN group_memories
    /\ Len(group_memories[LedgerChat]) = 1
    /\ LearnUser \in DOMAIN users
    /\ users[LearnUser].is_known_user
    /\ progress[LearnUser] = InitialProgress

\* C10: when a user with no stored record sends one text message in a private
\* chat, then after the message is handled an identity of the user is stored
\* with is_known false, a progress record is stored with overall_score 0, the
\* user's ledger holds exactly one turn, days_active is 1 and learning_streak
\* is 1.
C10_FirstPrivateMessage ==
    ( /\ frame.pc = "idle"
      /\ last_op.op \in {"replied", "apologised", "apology_failed"}
      /\ last_op.topic = "private"
      /\ last_op.before ) =>
        LET u == last_op.user
        IN  /\ u \in DOMAIN users
            /\ ~users[u].is_known_user
            /\ u \in DOMAIN progress
            /\ progress[u].overall_score = 0
            /\ u \in DOMAIN memories
            /\ Len(memories[u]) = 1
            /\ progress[u].days_active = 1
            /\ progress[u].learning_streak = 1

\* the first private message of a user without records has been answered: the
\* progress record and the turn are stored, no identity is
C10_Witness ==
    /\ frame.pc = "idle"
    /\ last_op.op = "replied"
    /\ last_op.topic = "private"
    /\ last_op.before
    /\ last_op.user \notin DOMAIN users
    /\ last_op.user \in DOMAIN progress
    /\ progress[last_op.user].overall_score = 0
    /\ progress[last_op.user].days_active = 1
    /\ progress[last_op.user].learning_streak = 1
    /\ last_op.user \in DOMAIN memories
    /\ Len(memories[last_op.user]) = 1
    /\ memories[last_op.user][1].user_name = "Unknown User"

\* the three completions of the end-to-end path, in their order
PathModules == <<"crypto_basics", "blockchain", "technical_analysis">>

\* the third completion of the path has just been made on a record that held
\* the first two and nothing else that scores: technical_analysis was completed
\* last, the score before it was 20, no quiz was taken
PathCompleted ==
    /\ last_op.op = "completed"
    /\ last_op.topic = "technical_analysis"
    /\ last_op.before = 20
    /\ Rec.completed_modules = PathModules
    /\ Rec.quizzes_completed = 0

\* C11: starting from a fresh record, after 'completed' events for
\* crypto_basics, then blockchain, then technical_analysis, overall_score is 30
\* and the achievements contain both 'First Steps' and 'Knowledge Seeker'.
C11_PathScoreAndAchievements ==
    PathCompleted =>
        /\ Rec.overall_score = 30
        /\ In("First Steps", Rec.achievements)
        /\ In("Knowledge Seeker", Rec.achievements)

\* the path was walked on a record on which nothing else happened
C11_Witness ==
    /\ PathCompleted
    /\ Rec.current_modules = <<>>
    /\ Rec.recent_topics = PathModules
    /\ Rec.achievements = <<"First Steps", "Knowledge Seeker">>
    /\ Rec.overall_score = 30

\* C12 as the spec words it: after the three completions of the path
\* skill_levels['crypto'] is intermediate.
C12_CryptoIntermediate ==
    PathCompleted => Rec.skill_levels.crypto = "intermediate"

\* C12: starting from a fresh record, after 'completed' events for
\* crypto_basics, then blockchain, then technical_analysis,
\* skill_levels['crypto'] is still beginner: two of the three modules are
\* crypto modules, one short of the threshold of 3, and the score of 30 is
\* below 60.
C12_CryptoBeginner ==
    PathCompleted => Rec.skill_levels.crypto = "beginner"

\* the path was walked: two crypto modules among the three, crypto at beginner
C12_Witness ==
    /\ PathCompleted
    /\ Len(CryptoModules(Rec.completed_modules)) = 2
    /\ Rec.overall_score = 30
    /\ Rec.skill_levels.crypto = "beginner"

\* C13: in every reachable progress record correct_answers <= total_questions,
\* after any sequence of quiz_completed events with any non-negative score
\* (each event adds 1 to total_questions and adds its score to correct_answers).
C13_CorrectWithinTotal ==
    LearnUser \in DOMAIN progress => Rec.correct_answers <= Rec.total_questions

\* one quiz with a score of 2 on a fresh record: two correct answers to one question
C13_Witness ==
    /\ LearnUser \in DOMAIN progress
    /\ last_op.op = "quiz_completed"
    /\ Rec.quizzes_completed = 1
    /\ Rec.total_questions = 1
    /\ Rec.correct_answers = 2

\* a file with the list under one key replaced, every other key as it was
OnlyKeyChanged(old, new, key) ==
    /\ DOMAIN new = DOMAIN old \cup {key}
    /\ \A k \in DOMAIN old : k # key => new[k] = old[k]

\* C14: every handled message produces one turn, appended to the sender's
\* per-user ledger exactly once (by the step that follows the generator's
\* return, and by no other step of the handler); the same turn is appended to
\* the chat's per-group ledger if and only if the chat is a group or a
\* supergroup, and a private message changes no group ledger.
C14_OneTurnPerMessage ==
    [][ IF last_op'.op = "stored"
        THEN LET u == frame.user_id
                 c == frame.chat_id
                 ledger == Get(memories', u, <<>>)
                 turn == ledger[Len(ledger)]
             IN  /\ ledger = Append(Get(memories, u, <<>>), turn)
                 /\ OnlyKeyChanged(memories, memories', u)
                 /\ turn.user_message = frame.message_text
                 /\ turn.user_id = u
                 /\ turn.chat_id = c
                 /\ turn.ai_response \in GeneratorTexts
                 /\ IF frame.chat_type \in {"group", "supergroup"}
                    THEN /\ Get(group_memories', c, <<>>)
                                = Append(Get(group_memories, c, <<>>), turn)
                         /\ OnlyKeyChanged(group_memories, group_memories', c)
                    ELSE group_memories' = group_memories
        ELSE memories' = memories /\ group_memories' = group_memories ]_vars

\* a supergroup message has been stored after a private one: two turns in the
\* user ledger, the second one alone in the ledger of the supergroup
C14_Witness ==
    /\ last_op.op = "stored"
    /\ last_op.topic = "supergroup"
    /\ Len(memories[ContextUser]) = 2
    /\ memories[ContextUser][1].chat_type = "private"
    /\ DOMAIN group_memories = SuperGroupChats
    /\ \A c \in SuperGroupChats : group_memories[c] = <<memories[ContextUser][2]>>

\* C15: while one message is handled, nothing is appended to a ledger before
\* the generator has returned, and the progress record is read (created with
\* the defaults if absent) but not changed before the generator call; the
\* activity tick is made only by the step that has appended the turn.
C15_StoreBeforeTick ==
    [][ /\ last_op'.op = "handle_message" =>
              /\ memories' = memories
              /\ group_memories' = group_memories
              /\ OnlyKeyChanged(progress, progress', last_op'.user)
              /\ progress'[last_op'.user] = Get(progress, last_op'.user, InitialProgress)
              /\ frame'.user_progress = progress'[last_op'.user]
        /\ (frame.pc # "idle" /\ progress' # progress) =>
              /\ last_op'.op = "stored"
              /\ Len(Get(memories', frame.user_id, <<>>))
                     = Len(Get(memories, frame.user_id, <<>>)) + 1
              /\ progress'[frame.user_id].last_activity = now ]_vars

\* a message of a user who had started a module has been stored at a later
\* instant than it arrived at: the record still holds the module, the tick
\* is made at the instant of the store
C15_Witness ==
    /\ last_op.op = "stored"
    /\ progress[ContextUser].current_modules = <<"crypto_basics">>
    /\ progress[ContextUser].days_active = 1
    /\ progress[ContextUser].last_activity = now
    /\ Len(memories[ContextUser]) = 1
    /\ memories[ContextUser][1].timestamp < now

\* the timestamp of a ledger entry parses and is older than the cutoff
OlderThan(entry, cutoff) ==
    "timestamp" \in DOMAIN entry /\ entry.timestamp >= 0 /\ entry.timestamp < cutoff

\* the timestamp of a ledger entry parses and is not later than the cutoff
NotLaterThan(entry, cutoff) ==
    "timestamp" \in DOMAIN entry /\ entry.timestamp >= 0 /\ entry.timestamp <= cutoff

\* the cutoff of the cleanup made last: days_to_keep days before now
CleanupCutoff == now - last_op.before * TicksPerDay

\* C16 as the spec words it: cleanup_old_data removes exactly the user-ledger
\* entries whose timestamp parses and is older than the cutoff, and retains the
\* others in their order.
C16_RemovesOlderOnly ==
    [][ last_op'.op = "cleanup_old_data" =>
            /\ DOMAIN memories' = DOMAIN memories
            /\ \A u \in DOMAIN memories :
                   memories'[u] = SelectSeq(memories[u],
                                            LAMBDA e : ~OlderThan(e, CleanupCutoff')) ]_vars

\* C16: cleanup_old_data removes exactly the user-ledger entries whose
\* timestamp parses and is not later than the cutoff (older than it or equal to
\* it); every entry whose timestamp is missing or does not parse is retained,
\* and the retained entries keep their relative order.
C16_RemovesNotLater ==
    [][ last_op'.op = "cleanup_old_data" =>
            /\ DOMAIN memories' = DOMAIN memories
            /\ \A u \in DOMAIN memories :
                   memories'[u] = SelectSeq(memories[u],
                                            LAMBDA e : ~NotLaterThan(e, CleanupCutoff')) ]_vars

\* a cleanup with days_to_keep = 1 has left, of a ledger of three, the garbled
\* entry and after it the entry stamped within the last day
C16_Witness ==
    /\ last_op.op = "cleanup_old_data"
    /\ last_op.before = 1
    /\ ContextUser \in DOMAIN memories
    /\ Len(memories[ContextUser]) = 2
    /\ memories[ContextUser][1].timestamp = Garbled
    /\ memories[ContextUser][1].user_message = 2
    /\ memories[ContextUser][2].timestamp > CleanupCutoff
    /\ memories[ContextUser][2].user_message = 3

\* a handle without its leading '@'
StripAt(cs) == IF cs # <<>> /\ cs[1] = "@" THEN Tail(cs) ELSE cs

\* the roster handles a username resolves to: equal to it up to the case of
\* the letters and up to a leading '@' on either side
RosterMatches(username) ==
    IF username = "" THEN {}
    ELSE { KnownHandles[i] : i \in
             { j \in 1..Len(KnownHandles) :
                 Lower(StripAt(HandleChars(KnownHandles[j])))
                     = Lower(StripAt(HandleChars(username))) } }

\* C17: register_user resolves the handle against the roster case-insensitively
\* and with or without a leading '@': on a match the stored identity has
\* is_known true and display_name and role of the roster entry; on no match, or
\* with an empty handle, it has the supplied first name as display_name, role
\* 'user' and is_known false.
C17_RosterResolution ==
    last_op.op = "register_user" =>
        LET identity == users[last_op.user]
            matched == RosterMatches(identity.username)
        IN  IF matched # {}
            THEN /\ identity.is_known_user
                 /\ \E handle \in matched :
                        /\ identity.display_name = KnownUsers(handle).name
                        /\ identity.role = KnownUsers(handle).role
            ELSE /\ ~identity.is_known_user
                 /\ identity.display_name = identity.first_name
                 /\ identity.role = "user"

\* the username NEXXXYZZ, in capitals and without '@', was registered as the
\* student Nex, and the other user, with a username off the roster, as Ann
C17_Witness ==
    /\ last_op.op = "register_user"
    /\ users[last_op.user].username = "NEXXXYZZ"
    /\ users[last_op.user].first_name = "Ann"
    /\ users[last_op.user].is_known_user
    /\ users[last_op.user].display_name = "Nex"
    /\ users[last_op.user].role = "student"
    /\ \E v \in DOMAIN users :
           /\ users[v].username = "stranger"
           /\ ~users[v].is_known_user
           /\ users[v].display_name = "Ann"

\* C18: across the register_user calls for one user_id the registration
\* timestamp stays the one the first call set, last_seen is refreshed by every
\* call, and there is at most one identity per user_id: the call writes the
\* record under the user's key and leaves the other records alone.
C18_RegistrationKept ==
    [][ last_op'.op = "register_user" =>
            LET u == last_op'.user
            IN  /\ OnlyKeyChanged(users, users', u)
                /\ users'[u].user_id = u
                /\ users'[u].last_seen = now
                /\ users'[u].registration_date =
                       IF u \in DOMAIN users THEN users[u].registration_date ELSE now ]_vars

\* a user registered again at a later instant, under another username
C18_Witness ==
    /\ last_op.op = "register_user"
    /\ users[last_op.user].registration_date = 0
    /\ users[last_op.user].last_seen = now
    /\ now > 0
    /\ users[last_op.user].is_known_user
    /\ Cardinality(DOMAIN users) = 2

\* C19: in every progress record reached by started and completed events,
\* current_modules and completed_modules are disjoint once the update_progress
\* call has returned.
C19_CurrentCompletedDisjoint ==
    LearnUser \in DOMAIN progress =>
        \A i \in 1..Len(Rec.current_modules) :
            ~In(Rec.current_modules[i], Rec.completed_modules)

\* a completed module was started again: it is in both lists
C19_Witness ==
    /\ last_op.op = "started"
    /\ last_op.before = 10
    /\ Rec.completed_modules = <<"crypto_basics">>
    /\ Rec.current_modules = <<"crypto_basics">>

\* C20: every 'completed' event sets overall_score to min(old score + 10, 100),
\* whatever the topic: never started, started, or already completed; and
\* completed_modules never holds a topic twice.
C20_CompletedAward ==
    [][ last_op'.op = "completed" =>
            LET u == last_op'.user
                old == IF u \in DOMAIN progress THEN progress[u].overall_score ELSE 0
            IN  /\ progress'[u].overall_score = Min(old + 10, 100)
                /\ In(last_op'.topic, progress'[u].completed_modules)
                /\ \A i, j \in 1..Len(progress'[u].completed_modules) :
                       i # j => progress'[u].completed_modules[i]
                                    # progress'[u].completed_modules[j] ]_vars

\* one module completed twice in a row, without a quiz and without having been
\* started: it is once in completed_modules and has scored 20
C20_Witness ==
    /\ last_op.op = "completed"
    /\ last_op.before = 10
    /\ Rec.quizzes_completed = 0
    /\ Rec.completed_modules = <<last_op.topic>>
    /\ Rec.recent_topics = <<last_op.topic>>
    /\ Rec.current_modules = <<>>
    /\ Rec.overall_score = 20

----------------------------------------------------------------------------
(* C21: the achievements after an update_progress call.                    *)

AchievementNames ==
    { "First Steps", "Knowledge Seeker", "Quiz Master", "Consistent Learner",
      "High Achiever", "Perfect Score" }

\* the condition of an achievement on a record
Earned(name, r) ==
    CASE name = "First Steps" -> Len(r.completed_modules) >= 1
    [] name = "Knowledge Seeker" -> Len(r.completed_modules) >= 3
    [] name = "Quiz Master" -> r.quizzes_completed >= 5
    [] name = "Consistent Learner" -> r.learning_streak >= 7
    [] name = "High Achiever" -> r.overall_score >= 80
    [] name = "Perfect Score" -> r.total_questions >= 5 /\ r.correct_answers = r.total_questions

\* the achievements of user u in a progress file
AchievementsOf(file, u) == IF u \in DOMAIN file THEN file[u].achievements ELSE <<>>

\* C21: after every update_progress call, each of the six achievements whose
\* condition holds on the resulting record (First Steps: 1 completed module,
\* Knowledge Seeker: 3, Quiz Master: 5 quizzes, Consistent Learner: streak 7,
\* High Achiever: capped score 80, Perfect Score: 5 questions all correct) is
\* in the record's achievements, and an achievement the call added is one
\* whose condition holds on the resulting record.
C21_AchievementsByCondition ==
    [][ last_op'.op \in Actions =>
            LET u == last_op'.user
                r == progress'[u]
            IN  \A name \in AchievementNames :
                    /\ Earned(name, r) => In(name, r.achievements)
                    /\ (In(name, r.achievements) /\ ~In(name, AchievementsOf(progress, u)))
                           => Earned(name, r) ]_vars

\* C21 witness: a quiz taken on the seventh day of a streak, after the whole
\* course and five quizzes one of which counted ten answers: the record holds
\* 'Consistent Learner', 'Knowledge Seeker', 'Quiz Master' and 'High
\* Achiever', and not 'Perfect Score'.
C21_Witness ==
    /\ LearnUser \in DOMAIN progress
    /\ last_op.op = "quiz_completed"
    /\ Rec.learning_streak >= 7
    /\ Rec.total_questions >= 5
    /\ Rec.correct_answers # Rec.total_questions
    /\ Rec.overall_score >= 80
    /\ Len(Rec.completed_modules) >= 3
    /\ Rec.achievements[Len(Rec.achievements)] = "Consistent Learner"
    /\ \A name \in AchievementNames : In(name, Rec.achievements) <=> name # "Perfect Score"

----------------------------------------------------------------------------
(* C22: the skill levels after an update_progress call.                    *)

\* the number of completed modules whose id matches a term of the domain
DomainCount(domain, completed) ==
    Cardinality({ i \in 1..Len(completed) :
        CASE domain = "crypto" -> IsCryptoModule(completed[i])
        [] domain = "stocks" -> IsStocksModule(completed[i])
        [] domain = "trading" -> IsTradingModule(completed[i]) })

IntermediateHolds(domain, r) ==
    IF domain = "trading"
    THEN DomainCount(domain, r.completed_modules) >= 2 \/ r.overall_score >= 50
    ELSE DomainCount(domain, r.completed_modules) >= 3 \/ r.overall_score >= 60

AdvancedHolds(domain, r) ==
    IF domain = "trading"
    THEN DomainCount(domain, r.completed_modules) >= 4 \/ r.overall_score >= 75
    ELSE DomainCount(domain, r.completed_modules) >= 5 \/ r.overall_score >= 80

\* C22: after every update_progress call, in each domain the level is advanced
\* whenever the advanced threshold holds (crypto, stocks: 5 domain modules or
\* score 80; trading: 4 or 75), also when the intermediate threshold holds
\* too, and it is intermediate or advanced whenever the intermediate threshold
\* holds (crypto, stocks: 3 or 60; trading: 2 or 50); the domain modules are
\* the completed modules whose lowercased id contains a term of the domain.
C22_SkillThresholds ==
    (last_op.op \in Actions /\ last_op.user \in DOMAIN progress) =>
        \A domain \in Domains :
            LET r == progress[last_op.user]
            IN  /\ AdvancedHolds(domain, r) => r.skill_levels[domain] = "advanced"
                /\ IntermediateHolds(domain, r) => Rank(r.skill_levels[domain]) >= 1

\* C22 witness: the fifth crypto module was just completed with the score
\* of the record below 60: crypto is advanced on the module count alone, with
\* the intermediate threshold holding too, trading is intermediate and stocks
\* is still at beginner.
C22_Witness ==
    /\ LearnUser \in DOMAIN progress
    /\ last_op.op = "completed"
    /\ DomainCount("crypto", Rec.completed_modules) = 5
    /\ Rec.overall_score < 60
    /\ Rec.skill_levels.crypto = "advanced"
    /\ Rec.skill_levels.trading = "intermediate"
    /\ Rec.skill_levels.stocks = "beginner"

----------------------------------------------------------------------------
(* C23: recent_topics.                                                     *)

\* the recent topics of user u in a progress file
RecentTopicsOf(file, u) == IF u \in DOMAIN file THEN file[u].recent_topics ELSE <<>>

\* C23: recent_topics holds at most 10 entries and no topic twice; an event on
\* a topic that is already present leaves the sequence unchanged; a new topic
\* is appended last, and the oldest entry is dropped when the length would
\* exceed 10.
C23_RecentTopics ==
    [][ last_op'.op \in Actions =>
            LET u == last_op'.user
                topic == last_op'.topic
                old == RecentTopicsOf(progress, u)
                new == RecentTopicsOf(progress', u)
            IN  /\ Len(new) <= 10
                /\ NoDup(new)
                /\ In(topic, old) => new = old
                /\ (~In(topic, old) /\ Len(old) < 10) => new = Append(old, topic)
                /\ (~In(topic, old) /\ Len(old) >= 10) => new = Append(Tail(old), topic) ]_vars

\* C23 witness: the eleventh module was just started: it is the last of ten
\* recent topics and the first module of the course is no longer among them.
C23_Witness ==
    /\ LearnUser \in DOMAIN progress
    /\ last_op.op = "started"
    /\ last_op.topic = RecentCourse[11]
    /\ Len(Rec.recent_topics) = 10
    /\ Rec.recent_topics[10] = RecentCourse[11]
    /\ Rec.recent_topics[1] = RecentCourse[2]
    /\ ~In(RecentCourse[1], Rec.recent_topics)
    /\ Len(Rec.current_modules) = 11

----------------------------------------------------------------------------
(* C24: the conversation history of the prompt.                            *)

\* the speaker line and the assistant line of every turn of a sequence
EveryTurnRendered(turns) ==
    [ k \in 1..(2 * Len(turns)) |->
        IF k % 2 = 1
        THEN [ speaker |-> turns[(k + 1) \div 2].user_name,
               user_message |-> turns[(k + 1) \div 2].user_message, ai_response |-> "" ]
        ELSE [ speaker |-> "Bot", user_message |-> None,
               ai_response |-> turns[k \div 2].ai_response ] ]

\* C24: the prompt built for a message renders every turn of the merged context
\* sequence it is given, in the given order (group history first, then the
\* user's entries), as a speaker line and an assistant line per turn, and
\* leaves no turn of the sequence out.
C24_PromptRendersEveryTurn ==
    (frame.pc = "generating" /\ frame.all_memories # <<>>) =>
        frame.context_prompt.history = EveryTurnRendered(frame.all_memories)

\* C24 witness: a group message of a user with five stored turns, in a group
\* whose ledger holds a turn of the other user: the history of the prompt is
\* the ten lines of the sender's five turns and no line of the group ledger.
C24_Witness ==
    /\ frame.pc = "generating"
    /\ frame.chat_type = "group"
    /\ Len(frame.all_memories) > 5
    /\ frame.all_memories[1].user_id # frame.user_id
    /\ Len(frame.context_prompt.history) = 10
    /\ frame.context_prompt.history = EveryTurnRendered(LastN(frame.all_memories, 5))
    /\ \A k \in 1..Len(frame.all_memories) - 5 :
           \A i \in 1..10 :
               frame.context_prompt.history[i].user_message # frame.all_memories[k].user_message
               \/ frame.context_prompt.history[i].speaker # frame.all_memories[k].user_name

----------------------------------------------------------------------------
(* C25: a generator call that fails.                                       *)

\* a turn with both sides: the message of the user and the reply
WholeTurn(turn) == {"user_message", "ai_response", "timestamp"} \subseteq DOMAIN turn

\* every turn of every ledger of a file has both sides
WholeLedgers(file) == \A k \in DOMAIN file : \A i \in 1..Len(file[k]) : WholeTurn(file[k][i])

\* C25: when the generator call fails, the user receives a fixed fallback reply
\* and no ledger holds a partially persisted turn; what is stored is the same
\* on the private path and on the group path (the whole turn, with the
\* fallback text as its reply, in the user ledger, and for a group chat in the
\* group ledger too), so a failure never leaves the turn in the group ledger
\* but not in the user ledger.
C25_GeneratorFailure ==
    [][ /\ WholeLedgers(memories') /\ WholeLedgers(group_memories')
        /\ (last_op'.op = "stored" /\ frame'.conversation_data.ai_response = GenerationFailedText) =>
               LET u == frame.user_id
                   c == frame.chat_id
                   turn == frame'.conversation_data
               IN  /\ turn.user_message = frame.message_text
                   /\ memories' = Put(memories, u, Append(Get(memories, u, <<>>), turn))
                   /\ group_memories' =
                          IF IsGroup(frame.chat_type)
                          THEN Put(group_memories, c, Append(Get(group_memories, c, <<>>), turn))
                          ELSE group_memories
        /\ (last_op'.op = "replied" /\ frame.conversation_data.ai_response = GenerationFailedText) =>
               last_op'.text = GenerationFailedText
        /\ last_op'.op = "apologised" => last_op'.text = ApologyText ]_vars

\* C25 witness: the reply to a group message whose generation failed was sent:
\* it is the fallback text, and the whole turn is the last of the group ledger
\* and the last of the user ledger.
C25_Witness ==
    /\ last_op.op = "replied"
    /\ last_op.topic = "group"
    /\ last_op.text = GenerationFailedText
    /\ last_op.user \in DOMAIN memories
    /\ \E c \in DOMAIN group_memories :
           LET g == group_memories[c]
               m == memories[last_op.user]
           IN  /\ Len(g) > 0 /\ Len(m) > 0
               /\ g[Len(g)] = m[Len(m)]
               /\ m[Len(m)].ai_response = GenerationFailedText
               /\ WholeTurn(m[Len(m)])

----------------------------------------------------------------------------
(* C26: two messages of one user handled at the same time.                 *)

\* the fields of a progress record an activity tick may change
ActivityFields == {"last_activity", "days_active", "learning_streak"}

\* a handler that has stored its turn finds it in the ledger of its user
TurnKept(f, file) ==
    f.pc \in {"replying", "apologising"} =>
        /\ f.user_id \in DOMAIN file
        /\ In(f.conversation_data, file[f.user_id])

\* C26: when the handling of two messages of the same user is interleaved,
\* each handler waiting at the generator call and at its reply sends, every
\* read-modify-write of the user's ledger and progress record is atomic: a
\* handler appends its turn to the ledger as it stands at that moment and
\* ticks the progress record as it stands at that moment, so that both turns
\* end up in the user ledger and no update of the progress record is lost.
C26_AtomicUpdates ==
    [][ /\ TurnKept(frame', memories') /\ TurnKept(suspended', memories')
        /\ last_op'.op = "stored" =>
               LET u == frame.user_id
                   turn == frame'.conversation_data
               IN  /\ memories'[u] = Append(Get(memories, u, <<>>), turn)
                   /\ u \in DOMAIN progress
                   /\ progress'[u].last_activity = now
                   /\ progress'[u].days_active >= progress[u].days_active
                   /\ \A field \in DOMAIN progress[u] \ ActivityFields :
                          progress'[u][field] = progress[u][field] ]_vars

\* C26 witness: the handler that began first stored its turn after the one
\* that began second, which waits for its reply to be sent, and after a module
\* was started: the ledger holds turn 2 then turn 1, and the progress record
\* holds the module, which the record the handler had read did not.
C26_Witness ==
    /\ last_op.op = "stored"
    /\ frame.pc = "replying"
    /\ suspended.pc = "replying"
    /\ frame.user_id = suspended.user_id
    /\ frame.message_text = 1
    /\ suspended.message_text = 2
    /\ frame.user_id \in DOMAIN memories
    /\ Len(memories[frame.user_id]) = 2
    /\ memories[frame.user_id][1] = suspended.conversation_data
    /\ memories[frame.user_id][2] = frame.conversation_data
    /\ frame.user_progress.current_modules = <<>>
    /\ progress[frame.user_id].current_modules = <<"crypto_basics">>

----------------------------------------------------------------------------
(* C27: the role of a stored identity.                                     *)

\* C27: every identity stored by register_user has a role that is user or
\* admin, for every handle, the handles of the roster included.
C27_RoleUserOrAdmin ==
    \A u \in DOMAIN users : users[u].role \in {"user", "admin"}

\* C27 witness: register_user stored the identity of a roster member who is
\* not the admin: its role is the roster's 'student'.
C27_Witness ==
    /\ last_op.op = "register_user"
    /\ users[last_op.user].username = "@pr_amod18"
    /\ users[last_op.user].is_known_user
    /\ users[last_op.user].known_as = "Pramod"
    /\ users[last_op.user].role = "student"
    /\ users[last_op.user].role \notin {"user", "admin"}

----------------------------------------------------------------------------
(* C28: the streak and the days of activity.                               *)

\* C28: learning_streak is at most days_active in every stored progress
\* record, after any sequence of activity ticks on any dates, dates that go
\* backwards included, progress events and resets.
C28_StreakWithinDaysActive ==
    \A u \in DOMAIN progress : progress[u].learning_streak <= progress[u].days_active

\* C28 witness: a tick on a date before the date of the last activity, on a
\* record that had a streak: the day is counted and the streak is back to 1.
C28_Witness ==
    /\ LearnUser \in DOMAIN progress
    /\ last_op.op = "activity"
    /\ last_op.before # None
    /\ DateOf(last_op.before) > DateOf(now)
    /\ Rec.last_activity = now
    /\ Rec.learning_streak = 1
    /\ Rec.days_active >= 4
    /\ Rec.current_modules # <<>>

----------------------------------------------------------------------------
(* C29: what an activity tick leaves alone.                                *)

\* C29: update_user_activity leaves overall_score, completed_modules,
\* current_modules, the quiz counters, recent_topics, achievements and
\* skill_levels of the record unchanged, so the tick that brings the streak
\* to 7 does not add 'Consistent Learner'; the achievement is added only by an
\* update_progress call made while the streak is at least 7.
C29_TickLeavesRest ==
    [][ /\ last_op'.op = "activity" =>
               LET u == last_op'.user
                   before == Get(progress, u, InitialProgress)
               IN  \A field \in DOMAIN before \ ActivityFields :
                       progress'[u][field] = before[field]
        /\ \A u \in DOMAIN progress' :
               (In("Consistent Learner", progress'[u].achievements)
                    /\ ~In("Consistent Learner", AchievementsOf(progress, u)))
                   => /\ last_op'.op \in Actions
                      /\ last_op'.user = u
                      /\ progress'[u].learning_streak >= 7 ]_vars

\* C29 witness: the tick of the seventh consecutive day on a record with a
\* started module: the streak is 7 and the record has no achievement.
C29_Witness ==
    /\ LearnUser \in DOMAIN progress
    /\ last_op.op = "activity"
    /\ last_op.before # None
    /\ DateOf(last_op.before) + 1 = DateOf(now)
    /\ Rec.learning_streak = 7
    /\ Rec.days_active = 7
    /\ Rec.current_modules # <<>>
    /\ Rec.achievements = <<>>

----------------------------------------------------------------------------
(* C30: one user's operations and the other users' records.                *)

\* the operations on one user
UserOperations == Actions \cup {"activity", "reset", "store_conversation", "register_user"}

\* a file holds for every key but one what it held, and no key less or more
OtherKeysKept(old, new, key) ==
    /\ DOMAIN new \ {key} = DOMAIN old \ {key}
    /\ \A k \in DOMAIN old \ {key} : new[k] = old[k]

\* C30: an operation on one user (update_progress, update_user_activity,
\* reset_user_progress, store_conversation, register_user) leaves the progress
\* record, the ledger and the identity of every other user as they were,
\* although each save writes the file of every user again.
C30_OtherUsersKept ==
    [][ last_op'.op \in UserOperations =>
            /\ OtherKeysKept(progress, progress', last_op'.user)
            /\ OtherKeysKept(memories, memories', last_op'.user)
            /\ OtherKeysKept(users, users', last_op'.user) ]_vars

\* C30 witness: a user has just been reset while the other user holds a
\* progress record with a completed module and a counted day, a ledger with a
\* turn and an identity.
C30_Witness ==
    /\ last_op.op = "reset"
    /\ \E v \in Users :
           /\ v # last_op.user
           /\ v \in DOMAIN progress /\ v \in DOMAIN memories /\ v \in DOMAIN users
           /\ progress[v].completed_modules = <<IsolationTopic>>
           /\ progress[v].days_active = 1
           /\ Len(memories[v]) = 1
           /\ users[v].role = "admin"
           /\ last_op.user \in DOMAIN progress
           /\ progress[last_op.user] = InitialProgress
           /\ last_op.before = CompletionAward

=============================================================================
